---- MODULE Spec2Model ----
(***************************************************************************)
(* Verification model of the zaphod cartridge-import core:                 *)
(*   - AssetRegistry            (src/zaphod/asset_registry.py)             *)
(*   - rubric deduplication     (src/zaphod/rubric_dedup.py)               *)
(*   - extract_cartridge and process_resources                             *)
(*                              (src/zaphod/import_cartridge.py)           *)
(* Each component has its own specification over its own variables; the    *)
(* variables of the other components stay at their idle values.            *)
(***************************************************************************)
EXTENDS Integers, Sequences, FiniteSets, TLC

VARIABLES
    \* ---- AssetRegistry ----
    disk,          \* the file system: absolute location -> file bytes, or Absent
    assets,        \* self.assets: hash_key -> asset_data
    asset_keys,    \* insertion order of the keys of self.assets (a Python dict)
    path_lookup,   \* self.path_lookup: local path -> hash_key
    document,      \* the persisted asset_registry.json, or Missing
    now,           \* the clock read by datetime.now()
    last,          \* the operation that acted last, and the value it returned
    \* ---- rubric deduplication ----
    rubric_docs,   \* content/<item>/rubric.yaml: path -> parsed document
    shared_rubrics,\* rubrics/<slug>.yaml: slug -> parsed document
    row_files,     \* rubrics/rows/<slug>.yaml: slug -> parsed criterion
    written,       \* the files the last deduplicate_rubric_rows run wrote
    raised,        \* whether that run ended in an uncaught exception
    clean_runs,    \* runs of deduplicate_rubric_rows since the last edit (0, 1, 2)
    edits,         \* rubric documents (re)imported so far
    \* ---- extract_cartridge ----
    archive,       \* zf.infolist(): the entries of the cartridge, in order
    py312,         \* sys.version_info >= (3, 12)
    ext_pc,        \* where extract_cartridge is: start, scan, extract, done, failed
    ext_i,         \* the loop's position in zf.namelist()
    extracted_size,\* the running total of the member loops
    temp_exists,   \* whether the scratch directory exists
    scratch,       \* the files in the scratch directory: location and entry
    extracted,     \* the members zf.extract has written, ever
    \* ---- process_resources ----
    resources,     \* the resource table of the manifest, in dict order
    temp_files,    \* the paths of the resources that name a file when joined to temp_dir
    malformed,     \* those of them on which DefusedET.parse raises
    unreadable,    \* those of them on which Path.read_text raises
    res_i,         \* the loop's position in resources.items()
    content_items, \* cartridge.content_items
    quizzes,       \* cartridge.quizzes
    question_banks,\* cartridge.question_banks
    cart_assets,   \* cartridge.assets: source file -> destination path
    returned,      \* process_resources has returned the cartridge
    res_raised,    \* process_resources has ended in an uncaught exception
    output_assets, \* the files under the output assets/ directory, once copied
    \* ---- parse_manifest, parse_modules ----
    logical,       \* what imsmanifest.xml says: its resources and modules
    namespace,     \* the namespace URI its structural elements are written in
    manifest_root, \* the parsed document: the root element
    man_pc,        \* where the import is: start, manifest, modules
    man_resources, \* the resource table parse_manifest returned, in dict order
    man_modules,   \* the module list parse_modules returned
    \* ---- two AssetRegistry objects on one document ----
    writers,       \* each writer's position, its registry in memory, what it saved
    \* ---- import_cartridge ----
    imp_input,     \* the arguments clean and dry_run, and what the cartridge is like
    output_tree,   \* content/, question-banks/ and assets/ under the output directory
    tree_before,   \* the same three directories when import_cartridge was called
    imp_temp,      \* whether the scratch directory of this import exists
    imp_pc         \* where import_cartridge is

regVars == <<disk, assets, asset_keys, path_lookup, document, now, last>>

rubVars == <<rubric_docs, shared_rubrics, row_files, written, raised, clean_runs, edits>>

extVars == <<archive, py312, ext_pc, ext_i, extracted_size, temp_exists, scratch, extracted>>

resVars == <<resources, temp_files, malformed, unreadable, res_i, content_items,
             quizzes, question_banks, cart_assets, returned, res_raised, output_assets>>

manVars == <<logical, namespace, manifest_root, man_pc, man_resources, man_modules>>

conVars == <<writers>>
impVars == <<imp_input, output_tree, tree_before, imp_temp, imp_pc>>

vars == <<regVars, rubVars, extVars, resVars, manVars, conVars, impVars>>

\* What the operations of one component leave alone.
notRegistry == <<rubVars, extVars, resVars, manVars, conVars, impVars>>
notRubrics == <<regVars, extVars, resVars, manVars, conVars, impVars>>
notExtract == <<regVars, rubVars, resVars, manVars, conVars, impVars>>
notResources == <<regVars, rubVars, extVars, manVars, conVars, impVars>>
notManifest == <<regVars, rubVars, extVars, resVars, conVars, impVars>>
notWriters == <<rubVars, extVars, resVars, manVars, impVars>>
notImport == <<regVars, rubVars, extVars, resVars, manVars, conVars>>

----------------------------------------------------------------------------
(***************************************************************************)
(* Paths.  A path is the sequence of its segments; an absolute path starts *)
(* with the segment "/".                                                   *)
(***************************************************************************)

Absent == "absent"
None == "None"

IsAbsolute(p) == Len(p) > 0 /\ p[1] = "/"

\* pathlib's parsing of a path string: "." and empty segments are dropped.
PurePath(p) == SelectSeq(p, LAMBDA s : s # "." /\ s # "")

\* pathlib's "/" operator: an absolute right operand replaces the left one.
JoinPath(base, p) == IF IsAbsolute(p) THEN p ELSE base \o p

\* PurePath.relative_to is lexical: it succeeds iff base is a prefix of p.
IsRelativeTo(p, base) ==
    Len(p) >= Len(base) /\ SubSeq(p, 1, Len(base)) = base

RelativeTo(p, base) == SubSeq(p, Len(base) + 1, Len(p))

PathName(p) == IF Len(p) = 0 THEN "" ELSE p[Len(p)]

\* The operating system's resolution of a path: ".." steps to the parent.
RECURSIVE OsResolveFrom(_, _)
OsResolveFrom(done, rest) ==
    IF rest = <<>> THEN done
    ELSE IF Head(rest) = ".."
         THEN OsResolveFrom(IF Len(done) > 1 THEN SubSeq(done, 1, Len(done) - 1)
                                            ELSE done, Tail(rest))
         ELSE OsResolveFrom(Append(done, Head(rest)), Tail(rest))

OsResolve(p) == OsResolveFrom(<<>>, p)

course_root == <<"/", "course">>

FileA == <<"/", "course", "assets", "a.png">>
FileB == <<"/", "course", "assets", "b.png">>
FileE == <<"/", "ext", "a.png">>

FileLocs == {FileA, FileB, FileE}

\* The bytes a file can hold, and the (id, url) pairs the uploader received.
Contents == {"X", "YY"}

\* The file outside the course is a copy of the X image; the course files vary.
BytesAt(f) == IF f = FileE THEN {"X"} ELSE Contents

Uploads == {[id |-> "101", url |-> "url-101"], [id |-> "102", url |-> "url-102"]}

\* The file_size argument of track_upload: <<>> is None, <<n>> is n bytes.
FileSizeArgs == {<<>>, <<1>>}

\* The paths callers hand to track_upload: relative to the course root, or absolute.
TrackPaths ==
    { <<"assets", "a.png">>, <<"assets", "b.png">>, FileB, FileE }

\* The paths callers hand to the lookups.
QueryPaths ==
    TrackPaths \cup
    { FileA, <<".", "assets", "a.png">>,
      <<"..", "..", "assets", "a.png">>, <<"..", "..", "assets", "b.png">>,
      <<"content", "a.png">>, <<"assets", "c.png">> }

IsFile(p) ==
    LET r == OsResolve(p) IN r \in DOMAIN disk /\ disk[r] # Absent

ReadBytes(p) == disk[OsResolve(p)]

\* hashlib.md5(bytes).hexdigest()[:12]; distinct for the bytes of Contents.
Md5Hex12(bytes) == CASE bytes = "X" -> "02129bb86106"
                     [] bytes = "YY" -> "0867f43e2758"

\* stat().st_size
StatSize(bytes) == CASE bytes = "X" -> 1
                     [] bytes = "YY" -> 2

HashKeyOf(content_hash) == "content-hash-" \o content_hash

----------------------------------------------------------------------------
(***************************************************************************)
(* AssetRegistry                                                           *)
(***************************************************************************)

Range(seq) == {seq[i] : i \in 1..Len(seq)}

\* All hash keys, in the order json.dumps(sort_keys=True) writes them.
HashKeyOrder == <<"content-hash-02129bb86106", "content-hash-0867f43e2758">>

\* track_upload, lines 164-168: Path(local_path), made absolute under the root.
AbsoluteLocalPath(local_path) == JoinPath(course_root, PurePath(local_path))

\* track_upload, lines 179-185: the alias the path is stored under.
NormalizedPath(abs_path) ==
    IF IsRelativeTo(abs_path, course_root)
    THEN RelativeTo(abs_path, course_root)
    ELSE abs_path

\* track_upload, line 215: the "../../assets/..." alias, when under assets/.
HasContentAlias(abs_path) == IsRelativeTo(abs_path, course_root \o <<"assets">>)

ContentAlias(abs_path) ==
    <<"..", "..", "assets">> \o RelativeTo(abs_path, course_root \o <<"assets">>)

\* track_upload, lines 188-202: the entry created, or the entry updated.
CreatedEntry(up, content_hash, file_size, filename, t) ==
    [ local_paths    |-> <<>>,
      canvas_file_id |-> up.id,
      canvas_url     |-> up.url,
      content_hash   |-> content_hash,
      uploaded_at    |-> t,
      file_size      |-> file_size,
      filename       |-> filename ]

\* An update that starts the list of local paths afresh.
UpdatedEntryAfresh(entry, up, t) ==
    [entry EXCEPT !.canvas_file_id = up.id, !.canvas_url = up.url, !.uploaded_at = t,
                  !.local_paths = <<>>]

UpdatedEntry(entry, up, t) ==
    [entry EXCEPT !.canvas_file_id = up.id, !.canvas_url = up.url, !.uploaded_at = t]

\* An append that does not look at the list.
WithLocalPathAppended(entry, p) == [entry EXCEPT !.local_paths = Append(@, p)]

\* lines 205-206 and 219-220: append the path unless it is already listed.
WithLocalPath(entry, p) ==
    IF p \in Range(entry.local_paths) THEN entry
    ELSE [entry EXCEPT !.local_paths = Append(@, p)]

\* dict assignment d[k] = v
DictSet(d, k, v) == [x \in DOMAIN d \cup {k} |-> IF x = k THEN v ELSE d[x]]

\* dict.pop(k, None) for every k of ks
DictDrop(d, ks) == [x \in DOMAIN d \ ks |-> d[x]]

\* lines 213-222: register the synthesized alias unless the index has it already.
AliasIndexed(lookup, alias, hash_key) ==
    IF alias \notin DOMAIN lookup THEN DictSet(lookup, alias, hash_key) ELSE lookup

AliasListed(entry, lookup, alias) ==
    IF alias \notin DOMAIN lookup THEN WithLocalPath(entry, alias) ELSE entry

\* track_upload, lines 164-222, on a file that exists: the registry afterwards.
TrackedRegistry(as, keys, lookup, local_path, up, file_size_arg, t) ==
    LET abs_path     == AbsoluteLocalPath(local_path)
        bytes        == ReadBytes(abs_path)
        content_hash == Md5Hex12(bytes)
        hash_key     == HashKeyOf(content_hash)
        filename     == PathName(abs_path)
        file_size    == IF file_size_arg = <<>> THEN StatSize(bytes) ELSE file_size_arg[1]
        normalized   == NormalizedPath(abs_path)
        entry0       == IF hash_key \notin DOMAIN as
                        THEN CreatedEntry(up, content_hash, file_size, filename, t)
                        ELSE UpdatedEntry(as[hash_key], up, t)
        entry1       == WithLocalPath(entry0, normalized)
        lookup1      == DictSet(lookup, normalized, hash_key)
        entry2       == IF HasContentAlias(abs_path)
                        THEN AliasListed(entry1, lookup1, ContentAlias(abs_path))
                        ELSE entry1
        lookup2      == IF HasContentAlias(abs_path)
                        THEN AliasIndexed(lookup1, ContentAlias(abs_path), hash_key)
                        ELSE lookup1
    IN  [ assets      |-> DictSet(as, hash_key, entry2),
          asset_keys  |-> IF hash_key \in DOMAIN as THEN keys ELSE Append(keys, hash_key),
          path_lookup |-> lookup2 ]

\* save, lines 102-118: the document written (json.dumps with sort_keys=True).
\* form is what reading the document gives: "object" (a JSON object, with
\* the keys listed), "not_object" (other JSON), "not_json" (json.loads
\* raises) or "unreadable" (read_text raises).
DocumentKeys == {"version", "assets", "path_lookup"}

SavedDocument(as, lookup) ==
    [exists |-> TRUE, form |-> "object", keys |-> DocumentKeys,
     version |-> "1.0", assets |-> as, path_lookup |-> lookup]

\* No asset_registry.json on disk.
Missing == [exists |-> FALSE, form |-> "", keys |-> {},
            version |-> "", assets |-> <<>>, path_lookup |-> <<>>]

\* A document that is there and is not a JSON object.
Damaged(form) == [exists |-> TRUE, form |-> form, keys |-> {},
                  version |-> "", assets |-> <<>>, path_lookup |-> <<>>]

\* The forms of damage: a truncated file, a JSON list, a directory in the
\* place of the file.
DamagedForms == {"not_json", "not_object", "unreadable"}

\* A constructor that does not read the document.
LoadedNothing(doc) == [assets |-> <<>>, asset_keys |-> <<>>, path_lookup |-> <<>>]

\* _load, lines 88-100: the registry a constructor builds from the document.
\* json.loads gives the keys of "assets" in the order of the file, which
\* save wrote sorted.
Loaded(doc) ==
    IF ~doc.exists \/ doc.form # "object"
    THEN [assets |-> <<>>, asset_keys |-> <<>>, path_lookup |-> <<>>]
    ELSE LET as == IF "assets" \in doc.keys THEN doc.assets ELSE <<>> IN
         [assets      |-> as,
          asset_keys  |-> SelectSeq(HashKeyOrder, LAMBDA k : k \in DOMAIN as),
          path_lookup |-> IF "path_lookup" \in doc.keys THEN doc.path_lookup ELSE <<>>]

\* A check that looks at the first local path only.
FirstPathExists(entry) ==
    /\ entry.local_paths # <<>>
    /\ IsFile(JoinPath(course_root, PurePath(entry.local_paths[1])))

\* prune_missing, lines 345-355: an entry none of whose local paths is a file.
AnyPathExists(entry) ==
    \E i \in 1..Len(entry.local_paths) :
        IsFile(JoinPath(course_root, PurePath(entry.local_paths[i])))

ToRemove(as) == {k \in DOMAIN as : ~AnyPathExists(as[k])}

\* prune_missing, lines 358-364: the paths popped from path_lookup.
PrunedPaths(as, removed) == UNION {Range(as[k].local_paths) : k \in removed}

\* A prune that forgets the path index.
PrunedLookupKept(as, lookup, removed) == lookup

PrunedLookup(as, lookup, removed) == DictDrop(lookup, PrunedPaths(as, removed))

NotFound == "NotFound"

\* get_canvas_url / get_canvas_file_id, steps 1 and 2: the entry the path resolves
\* to by exact alias, else by the content hash of the file at the path.
ExactKey(lookup, local_path) ==
    IF PurePath(local_path) \in DOMAIN lookup THEN lookup[PurePath(local_path)]
    ELSE NotFound

\* A hash lookup that forgets to resolve the path against the course root.
HashedKeyUnrooted(as, local_path) ==
    LET path_obj == PurePath(local_path) IN
    IF IsFile(path_obj) /\ HashKeyOf(Md5Hex12(ReadBytes(path_obj))) \in DOMAIN as
    THEN HashKeyOf(Md5Hex12(ReadBytes(path_obj)))
    ELSE NotFound

HashedKey(as, local_path) ==
    LET path_obj == JoinPath(course_root, PurePath(local_path)) IN
    IF IsFile(path_obj) /\ HashKeyOf(Md5Hex12(ReadBytes(path_obj))) \in DOMAIN as
    THEN HashKeyOf(Md5Hex12(ReadBytes(path_obj)))
    ELSE NotFound

\* get_canvas_url, lines 256-260: the first entry, in dict order, with the filename.
FilenameKey(as, keys, local_path) ==
    LET hits == SelectSeq(keys, LAMBDA k : as[k].filename = PathName(PurePath(local_path)))
    IN  IF hits = <<>> THEN NotFound ELSE Head(hits)

\* A resolution that tries the content hash before the exact alias.
ResolvedKeyUrlHashFirst(as, keys, lookup, local_path) ==
    IF HashedKey(as, local_path) # NotFound THEN HashedKey(as, local_path)
    ELSE IF ExactKey(lookup, local_path) # NotFound THEN ExactKey(lookup, local_path)
    ELSE FilenameKey(as, keys, local_path)

ResolvedKeyUrl(as, keys, lookup, local_path) ==
    IF ExactKey(lookup, local_path) # NotFound THEN ExactKey(lookup, local_path)
    ELSE IF HashedKey(as, local_path) # NotFound THEN HashedKey(as, local_path)
    ELSE FilenameKey(as, keys, local_path)

ResolvedKeyFileId(as, lookup, local_path) ==
    IF ExactKey(lookup, local_path) # NotFound THEN ExactKey(lookup, local_path)
    ELSE HashedKey(as, local_path)

get_canvas_url(local_path) ==
    LET k == ResolvedKeyUrl(assets, asset_keys, path_lookup, local_path)
    IN  IF k = NotFound THEN None ELSE assets[k].canvas_url

get_canvas_file_id(local_path) ==
    LET k == ResolvedKeyFileId(assets, path_lookup, local_path)
    IN  IF k = NotFound THEN None ELSE assets[k].canvas_file_id


----------------------------------------------------------------------------
(***************************************************************************)
(* The registry as a state machine: the caller tracks uploads, prunes and  *)
(* saves, and files are created, changed and deleted between the calls.    *)
(***************************************************************************)

MaxTracks == 3

NoOp == [op |-> "none", path |-> <<>>, key |-> "", result |-> 0]

\* extract_cartridge not called.
IdleExtract ==
    /\ archive = <<>>
    /\ py312 = FALSE
    /\ ext_pc = "idle"
    /\ ext_i = 0
    /\ extracted_size = 0
    /\ temp_exists = FALSE
    /\ scratch = {}
    /\ extracted = {}

\* process_resources not called.
IdleResources ==
    /\ resources = <<>>
    /\ temp_files = {}
    /\ malformed = {}
    /\ unreadable = {}
    /\ res_i = 0
    /\ content_items = <<>>
    /\ quizzes = <<>>
    /\ question_banks = <<>>
    /\ cart_assets = <<>>
    /\ returned = FALSE
    /\ res_raised = FALSE
    /\ output_assets = [done |-> FALSE, files |-> <<>>]

\* No second registry object is at work.
IdleWriters == writers = <<>>

Subdirs == {"content", "question-banks", "assets"}
NoDirectory == [exists |-> FALSE, files |-> {}]

IdleImport ==
    /\ imp_input = [clean |-> FALSE, dry_run |-> FALSE, archive |-> "ok", manifest |-> "ok"]
    /\ output_tree = [d \in Subdirs |-> NoDirectory]
    /\ tree_before = output_tree
    /\ imp_temp = FALSE
    /\ imp_pc = "idle"

\* No manifest has been read.
IdleManifest ==
    /\ logical = [resources |-> <<>>, modules |-> <<>>]
    /\ namespace = ""
    /\ manifest_root = [tag |-> <<"", "manifest">>, children |-> <<>>]
    /\ man_pc = "start"
    /\ man_resources = <<>>
    /\ man_modules = <<>>

\* The rubric tree while the registry is the component at work.
IdleRubrics ==
    /\ rubric_docs = <<>>
    /\ shared_rubrics = <<>>
    /\ row_files = <<>>
    /\ written = {}
    /\ raised = FALSE
    /\ clean_runs = 0
    /\ edits = 0

InitRegistry ==
    /\ IdleRubrics
    /\ IdleExtract
    /\ IdleResources
    /\ IdleManifest
    /\ IdleWriters
    /\ IdleImport
    /\ disk \in [FileLocs -> Contents \cup {Absent}]
    /\ \A f \in FileLocs : disk[f] \in BytesAt(f) \cup {Absent}
    /\ assets = <<>>
    /\ asset_keys = <<>>
    /\ path_lookup = <<>>
    /\ document = Missing
    /\ now = 0
    /\ last = NoOp

FsOp == [op |-> "fs", path |-> <<>>, key |-> "", result |-> 0]

WriteFile(f, bytes) ==
    /\ disk[f] # bytes
    /\ disk' = [disk EXCEPT ![f] = bytes]
    /\ last' = FsOp
    /\ UNCHANGED <<assets, asset_keys, path_lookup, document, now>>
    /\ UNCHANGED notRegistry

DeleteFile(f) ==
    /\ disk[f] # Absent
    /\ disk' = [disk EXCEPT ![f] = Absent]
    /\ last' = FsOp
    /\ UNCHANGED <<assets, asset_keys, path_lookup, document, now>>
    /\ UNCHANGED notRegistry

\* track_upload on a path that is no file: _compute_hash raises, nothing changes.
TrackUploadRaises(local_path) ==
    /\ ~IsFile(AbsoluteLocalPath(local_path))
    /\ last' = [op |-> "track_upload_raised", path |-> <<>>, key |-> "", result |-> 0]
    /\ UNCHANGED <<disk, assets, asset_keys, path_lookup, document, now>>
    /\ UNCHANGED notRegistry

TrackUpload(local_path, up, file_size_arg) ==
    /\ now < MaxTracks
    /\ IsFile(AbsoluteLocalPath(local_path))
    /\ LET r == TrackedRegistry(assets, asset_keys, path_lookup,
                                local_path, up, file_size_arg, now + 1)
       IN  /\ assets' = r.assets
           /\ asset_keys' = r.asset_keys
           /\ path_lookup' = r.path_lookup
    /\ now' = now + 1
    /\ last' = [op |-> "track_upload", path |-> AbsoluteLocalPath(local_path),
                key |-> HashKeyOf(Md5Hex12(ReadBytes(AbsoluteLocalPath(local_path)))),
                result |-> 0]
    /\ UNCHANGED <<disk, document>>
    /\ UNCHANGED notRegistry

\* prune_missing, lines 336-370, with the save() it ends in.
PruneMissing ==
    LET removed == ToRemove(assets) IN
    /\ assets' = DictDrop(assets, removed)
    /\ asset_keys' = SelectSeq(asset_keys, LAMBDA k : k \notin removed)
    /\ path_lookup' = PrunedLookup(assets, path_lookup, removed)
    /\ document' = IF removed # {}
                   THEN SavedDocument(assets', path_lookup')
                   ELSE document
    /\ last' = [op |-> "prune_missing", path |-> <<>>, key |-> "",
                result |-> Cardinality(removed)]
    /\ UNCHANGED <<disk, now>>
    /\ UNCHANGED notRegistry

NextRegistry ==
    \/ \E f \in FileLocs : \E bytes \in BytesAt(f) : WriteFile(f, bytes)
    \/ \E f \in FileLocs : DeleteFile(f)
    \/ \E p \in TrackPaths : TrackUploadRaises(p)
    \/ \E p \in TrackPaths, up \in Uploads, sz \in FileSizeArgs : TrackUpload(p, up, sz)
    \/ PruneMissing

SpecRegistry == InitRegistry /\ [][NextRegistry]_vars


----------------------------------------------------------------------------
(***************************************************************************)
(* AssetRegistry: properties                                               *)
(***************************************************************************)

\* C1: in every state reached from the empty registry by track_upload and
\* prune_missing calls, with files changing in between, every path p of
\* path_lookup maps to a key of assets whose local_paths list contains p.
C1_PathLookupSound ==
    \A p \in DOMAIN path_lookup :
        /\ path_lookup[p] \in DOMAIN assets
        /\ p \in Range(assets[path_lookup[p]].local_paths)

\* A prune has removed an entry (it saved the document) and left another one,
\* whose paths are still indexed.
C1_Witness ==
    /\ last.op = "prune_missing"
    /\ document.exists
    /\ DOMAIN assets # {}
    /\ DOMAIN assets # DOMAIN document.assets
    /\ DOMAIN path_lookup # {}

\* The file at an absolute location and its content hash key.
KeyOfFile(abs_path) == HashKeyOf(Md5Hex12(ReadBytes(abs_path)))

\* What C2 promises of two tracked paths p1, p2 whose bytes hash to key k.
DedupHolds(p1, p2, k) ==
    /\ k \in DOMAIN assets
    /\ Cardinality({j \in DOMAIN assets : assets[j].content_hash = assets[k].content_hash}) = 1
    /\ NormalizedPath(p1) \in Range(assets[k].local_paths)
    /\ NormalizedPath(p2) \in Range(assets[k].local_paths)
    /\ get_canvas_url(NormalizedPath(p1)) = get_canvas_url(NormalizedPath(p2))
    /\ \A p \in {p1, p2} :
           HasContentAlias(p) =>
               get_canvas_url(ContentAlias(p)) = get_canvas_url(NormalizedPath(p))

\* C2: after track_upload on two different local paths whose files hold the
\* same bytes, there is one entry for the content, both paths are aliases of
\* it, and get_canvas_url gives the same value for both paths and for the
\* synthesized "../../assets/..." form of each path under the assets root.
C2_DedupTwoPaths ==
    [][ \A p1, p2 \in FileLocs :
          ( /\ p1 # p2
            /\ last.op = "track_upload" /\ last.path = p1
            /\ last'.op = "track_upload" /\ last'.path = p2
            /\ last'.key = last.key )
          => \A k \in Range(HashKeyOrder) : k = last.key => DedupHolds(p1, p2, k)' ]_vars

\* C3 as stated: a lookup on the path of an existing file whose bytes equal
\* those of a tracked asset resolves to the entry keyed by the file's content
\* hash, whichever path is used for the query.
C3_SameBytesSameEntry ==
    \A q \in QueryPaths :
        LET f == JoinPath(course_root, PurePath(q)) IN
        (IsFile(f) /\ KeyOfFile(f) \in DOMAIN assets) =>
            /\ ResolvedKeyUrl(assets, asset_keys, path_lookup, q) = KeyOfFile(f)
            /\ ResolvedKeyFileId(assets, path_lookup, q) = KeyOfFile(f)

\* C3 amended: the same, for a query path that is not itself an alias of the
\* path index (an exact alias match takes precedence over the content hash).
C3_SameBytesSameEntryUnlessAlias ==
    \A q \in QueryPaths :
        LET f == JoinPath(course_root, PurePath(q)) IN
        (IsFile(f) /\ KeyOfFile(f) \in DOMAIN assets
                   /\ PurePath(q) \notin DOMAIN path_lookup) =>
            /\ ResolvedKeyUrl(assets, asset_keys, path_lookup, q) = KeyOfFile(f)
            /\ ResolvedKeyFileId(assets, path_lookup, q) = KeyOfFile(f)
            /\ get_canvas_url(q) = assets[KeyOfFile(f)].canvas_url
            /\ get_canvas_file_id(q) = assets[KeyOfFile(f)].canvas_file_id

\* A file that was never tracked holds the bytes of a tracked asset, and is
\* queried by a relative path the index does not hold.
C3_Witness ==
    \E q \in QueryPaths :
        LET f == JoinPath(course_root, PurePath(q)) IN
        /\ ~IsAbsolute(q)
        /\ IsFile(f)
        /\ KeyOfFile(f) \in DOMAIN assets
        /\ PurePath(q) \notin DOMAIN path_lookup
        /\ NormalizedPath(f) \notin Range(assets[KeyOfFile(f)].local_paths)
        /\ assets[KeyOfFile(f)].filename # PathName(f)


----------------------------------------------------------------------------
(***************************************************************************)
(* Rubric deduplication (rubric_dedup.py).                                 *)
(* A rubric document is the parsed YAML: a reference {use_rubric: slug},   *)
(* or a rubric {title, criteria} whose criteria entries are criterion      *)
(* dicts {description, points} or "{{rubric_row:slug}}" placeholder        *)
(* strings, written here [rubric_row |-> slug].                            *)
(***************************************************************************)

CritA  == [description |-> "Clarity",  points |-> 5]
CritA2 == [description |-> "Clarity ", points |-> 5]
CritB  == [description |-> "Depth",    points |-> 5]
CritC  == [description |-> "Clarity",  points |-> 3]

RubricDoc(title, criteria) == [use_rubric |-> "", title |-> title, criteria |-> criteria]

\* The rubric documents an import writes beside its assignments.
ImportedDocs ==
    { RubricDoc("", <<CritA, CritB>>),
      RubricDoc("Essay", <<CritA2, CritB>>),
      RubricDoc("", <<CritA, CritC>>),
      RubricDoc("", <<CritC, CritB>>),
      RubricDoc("", <<CritA, CritA2>>) }

\* content/<item>/rubric.yaml, in the order sorted() gives the paths.
RubricPathOrder ==
    << "content/a1.assignment/rubric.yaml",
       "content/a2.assignment/rubric.yaml",
       "content/a3.assignment/rubric.yaml",
       "content/a4.assignment/rubric.yaml" >>

\* The assignments of the small course.
RubricPaths == {RubricPathOrder[i] : i \in 1..3}

\* isinstance(entry, dict)
IsCriterion(entry) == "description" \in DOMAIN entry

Placeholder(slug) == [rubric_row |-> slug]

\* str.strip()
Strip(text) == CASE text = "Clarity " -> "Clarity"
                 [] text = " Week 1 " -> "Week 1"
                 [] text = "  " -> ""
                 [] OTHER -> text

\* _strip_strings under json.dumps(sort_keys=True): whitespace and key order
\* do not distinguish two values.
NormalizeEntry(entry) ==
    IF IsCriterion(entry)
    THEN [description |-> Strip(entry.description), points |-> entry.points]
    ELSE entry

NormalizeList(criteria) == [i \in 1..Len(criteria) |-> NormalizeEntry(criteria[i])]

\* _criterion_fingerprint and _list_fingerprint: sha256(_normalize(x))[:16].
\* Two values have one fingerprint iff they normalize alike; the hex digits
\* decide the order of sorted(shared_fps).
CriterionFingerprint(criterion) == NormalizeEntry(criterion)

ListFingerprint(criteria) == NormalizeList(criteria)

\* fp[:12] of a criteria list and of a criterion.
ListFingerprintHex12(fp) ==
    CASE fp = <<CritA, CritB>> -> "0a5868d82643"
      [] fp = <<CritA, CritC>> -> "346ffee2585d"
      [] fp = <<CritA, CritA>> -> "74464a9c67fd"
      [] fp = <<CritC, CritB>> -> "eb6a7ef4d366"
      [] OTHER -> "ffffffffffff"

CriterionFingerprintHex12(fp) ==
    CASE fp = CritA -> "0cc2b283c3ac"
      [] fp = CritC -> "6fc3c28c7344"
      [] fp = CritB -> "ffdb894f038b"
      [] OTHER -> "ffffffffffff"

\* The fingerprints in ascending order of their hex digits.
ListFingerprintOrder ==
    << <<CritA, CritB>>,                                           \* 0a5868d8...
       <<[rubric_row |-> "clarity"], CritB>>,                      \* 18c973e0...
       <<CritA, CritC>>,                                           \* 346ffee2...
       <<CritA, CritA>>,                                           \* 74464a9c...
       <<[rubric_row |-> "clarity"]>>,                             \* 82ce3bc6...
       <<[rubric_row |-> "clarity"], [rubric_row |-> "depth"]>>,   \* bdaadb3e...
       <<CritA>>,                                                  \* cbb07062...
       <<CritC>>,                                                  \* d0b3c995...
       <<CritC, CritB>>,                                           \* eb6a7ef4...
       <<CritA, [rubric_row |-> "depth"]>> >>                      \* fb4f2b9b...

CriterionFingerprintOrder == <<CritA, CritC, CritB>>

RECURSIVE SetToSeq(_)
SetToSeq(S) == IF S = {} THEN <<>>
               ELSE LET x == CHOOSE y \in S : TRUE IN <<x>> \o SetToSeq(S \ {x})

\* sorted(shared_fps), for fingerprints of lists and of criteria.
SortedListFps(fps) ==
    SelectSeq(ListFingerprintOrder, LAMBDA fp : fp \in fps)
        \o SetToSeq(fps \ Range(ListFingerprintOrder))

SortedCriterionFps(fps) ==
    SelectSeq(CriterionFingerprintOrder, LAMBDA fp : fp \in fps)
        \o SetToSeq(fps \ Range(CriterionFingerprintOrder))

\* _make_slug: lower-case, punctuation dropped, blanks to "-", 40 characters.
MakeSlug(text) ==
    CASE text = "Clarity"  -> "clarity"
      [] text = "Clarity " -> "clarity"
      [] text = "Depth"    -> "depth"
      [] text = "Essay"    -> "essay"
      [] OTHER             -> "rubric"

\* _unique_slug: base, base_2, base_3, ... until the slug is not taken.
RECURSIVE UniqueSlugFrom(_, _, _)
UniqueSlugFrom(base_slug, counter, existing_slugs) ==
    IF (base_slug \o "_" \o ToString(counter)) \in existing_slugs
    THEN UniqueSlugFrom(base_slug, counter + 1, existing_slugs)
    ELSE base_slug \o "_" \o ToString(counter)

UniqueSlug(base_slug, existing_slugs) ==
    IF base_slug \in existing_slugs
    THEN UniqueSlugFrom(base_slug, 2, existing_slugs)
    ELSE base_slug

\* _load_full_rubric: the rubric, unless a reference or without criteria.
LoadsAsFullRubric(doc) == doc.use_rubric = "" /\ doc.criteria # <<>>

\* _load_rubric_criteria: the criterion dicts of the document (placeholders
\* filtered out), nothing for a reference.
LoadedCriteria(doc) ==
    IF doc.use_rubric # "" THEN <<>> ELSE SelectSeq(doc.criteria, IsCriterion)


\* ---- Pass 1: whole-rubric deduplication ----

\* _find_rubric_files: the rubric.yaml files outside rubrics/, sorted.
InlinePathSeq(docs) == SelectSeq(RubricPathOrder, LAMBDA p : p \in DOMAIN docs)

FullRubricPaths(docs) ==
    SelectSeq(InlinePathSeq(docs), LAMBDA p : LoadsAsFullRubric(docs[p]))

\* fp_to_paths[fp], and fp_to_data[fp]: the data of the last path of the group.
ListFpPaths(docs, fp) ==
    SelectSeq(FullRubricPaths(docs), LAMBDA p : ListFingerprint(docs[p].criteria) = fp)

ListFpData(docs, fp) ==
    docs[ListFpPaths(docs, fp)[Len(ListFpPaths(docs, fp))]]

\* shared_fps: the fingerprints of two or more inline rubric documents.
SharedListFps(docs) ==
    {fp \in {ListFingerprint(docs[p].criteria) : p \in Range(FullRubricPaths(docs))} :
        Len(ListFpPaths(docs, fp)) >= 2}

NoSlug == ""

\* _find_existing_rubric: a shared rubric with the same normalized criteria
\* (glob order decides among several).
FindExistingRubric(shared, data) ==
    LET hits == {slug \in DOMAIN shared :
                    NormalizeList(shared[slug].criteria) = NormalizeList(data.criteria)}
    IN  IF hits = {} THEN NoSlug ELSE CHOOSE slug \in hits : TRUE

\* line 105: .get() on a first entry that is a placeholder string raises
\* AttributeError.
BaseSlugRaises(data) == data.title = "" /\ ~IsCriterion(data.criteria[1])

\* lines 100-106: slug from the title, else the first criterion, else fp[:12].
RubricBaseSlug(data, fp) ==
    IF data.title # "" THEN MakeSlug(data.title)
    ELSE IF data.criteria[1].description # ""
         THEN MakeSlug(data.criteria[1].description)
         ELSE ListFingerprintHex12(fp)

\* lines 91-112: the loop over sorted(shared_fps).
RECURSIVE SharedRubricsLoop(_, _, _, _, _)
SharedRubricsLoop(fps, docs, shared, fp_to_slug, wr) ==
    IF fps = <<>>
    THEN [shared |-> shared, fp_to_slug |-> fp_to_slug, written |-> wr, raised |-> FALSE]
    ELSE LET fp   == Head(fps)
             data == ListFpData(docs, fp)
             existing_slug == FindExistingRubric(shared, data)
             slug == UniqueSlug(RubricBaseSlug(data, fp), DOMAIN shared)
         IN  IF existing_slug # NoSlug
             THEN SharedRubricsLoop(Tail(fps), docs, shared,
                                    DictSet(fp_to_slug, fp, existing_slug), wr)
             ELSE IF BaseSlugRaises(data)
             THEN [shared |-> shared, fp_to_slug |-> fp_to_slug, written |-> wr,
                   raised |-> TRUE]
             ELSE SharedRubricsLoop(Tail(fps), docs, DictSet(shared, slug, data),
                                    DictSet(fp_to_slug, fp, slug),
                                    wr \cup {<<"rubrics", slug>>})

\* lines 120-123: the document a group member is rewritten to.
ReferenceDoc(slug, data) == [use_rubric |-> slug, title |-> "", criteria |-> <<>>]

\* _deduplicate_whole_rubrics on the tree t = [docs, shared, rows, written,
\* raised]; an exception leaves the files written before it.
Pass1(t) ==
    IF SharedListFps(t.docs) = {} THEN t
    ELSE LET r == SharedRubricsLoop(SortedListFps(SharedListFps(t.docs)),
                                    t.docs, t.shared, <<>>, t.written)
             grouped == {p \in Range(FullRubricPaths(t.docs)) :
                            ListFingerprint(t.docs[p].criteria) \in DOMAIN r.fp_to_slug}
         IN  IF r.raised
             THEN [t EXCEPT !.shared = r.shared, !.written = r.written, !.raised = TRUE]
             ELSE
             [ docs    |-> [p \in DOMAIN t.docs |->
                              IF p \in grouped
                              THEN ReferenceDoc(
                                     r.fp_to_slug[ListFingerprint(t.docs[p].criteria)],
                                     t.docs[p])
                              ELSE t.docs[p]],
               shared  |-> r.shared,
               rows    |-> t.rows,
               written |-> r.written \cup {<<"content", p>> : p \in grouped},
               raised  |-> FALSE ]

\* ---- Pass 2: row-level deduplication ----

\* rubrics/<slug>.yaml in sorted order.
SlugOrder ==
    << "clarity", "clarity_2", "clarity_3", "clarity_4", "depth", "depth_2",
       "depth_3", "essay", "essay_2", "essay_3", "rubric" >>

SortedSlugs(slugs) ==
    SelectSeq(SlugOrder, LAMBDA x : x \in slugs) \o SetToSeq(slugs \ Range(SlugOrder))

\* lines 140-143: the inline documents, then the shared rubrics.
RowScanFiles(t) ==
    [i \in 1..Len(InlinePathSeq(t.docs)) |-> <<"content", InlinePathSeq(t.docs)[i]>>]
      \o [i \in 1..Len(SortedSlugs(DOMAIN t.shared)) |->
              <<"rubrics", SortedSlugs(DOMAIN t.shared)[i]>>]

DocAt(t, f) == IF f[1] = "content" THEN t.docs[f[2]] ELSE t.shared[f[2]]

RECURSIVE CriteriaOfFiles(_, _)
CriteriaOfFiles(t, files) ==
    IF files = <<>> THEN <<>>
    ELSE LoadedCriteria(DocAt(t, Head(files))) \o CriteriaOfFiles(t, Tail(files))

\* fingerprint_to_paths[fp]
CriterionFpFiles(t, fp) ==
    {f \in Range(RowScanFiles(t)) :
        \E c \in Range(LoadedCriteria(DocAt(t, f))) : CriterionFingerprint(c) = fp}

\* fingerprint_to_criterion[fp]: the last criterion seen with the fingerprint.
CriterionFpData(t, fp) ==
    LET seen == SelectSeq(CriteriaOfFiles(t, RowScanFiles(t)),
                          LAMBDA c : CriterionFingerprint(c) = fp)
    IN  seen[Len(seen)]

\* A pass that extracts a criterion found in one document only.
SharedCriterionFpsAny(t) ==
    {CriterionFingerprint(c) : c \in Range(CriteriaOfFiles(t, RowScanFiles(t)))}

\* shared_fps: the fingerprints found in two or more documents.
SharedCriterionFps(t) ==
    {fp \in {CriterionFingerprint(c) : c \in Range(CriteriaOfFiles(t, RowScanFiles(t)))} :
        Cardinality(CriterionFpFiles(t, fp)) >= 2}

\* A search that takes any row file for a match.
FindExistingRowAny(rows, criterion) ==
    IF DOMAIN rows = {} THEN NoSlug ELSE CHOOSE slug \in DOMAIN rows : TRUE

\* _find_existing_row
FindExistingRow(rows, criterion) ==
    LET hits == {slug \in DOMAIN rows :
                    NormalizeEntry(rows[slug]) = NormalizeEntry(criterion)}
    IN  IF hits = {} THEN NoSlug ELSE CHOOSE slug \in hits : TRUE

\* lines 178-179
RowBaseSlug(criterion, fp) ==
    IF criterion.description # "" THEN MakeSlug(criterion.description)
    ELSE CriterionFingerprintHex12(fp)

\* lines 169-184: the loop over sorted(shared_fps).
RECURSIVE SharedRowsLoop(_, _, _, _, _)
SharedRowsLoop(fps, t, rows, fp_to_slug, wr) ==
    IF fps = <<>> THEN [rows |-> rows, fp_to_slug |-> fp_to_slug, written |-> wr]
    ELSE LET fp == Head(fps)
             criterion == CriterionFpData(t, fp)
             existing_slug == FindExistingRow(rows, criterion)
             slug == UniqueSlug(RowBaseSlug(criterion, fp), DOMAIN rows)
         IN  IF existing_slug # NoSlug
             THEN SharedRowsLoop(Tail(fps), t, rows,
                                 DictSet(fp_to_slug, fp, existing_slug), wr)
             ELSE SharedRowsLoop(Tail(fps), t, DictSet(rows, slug, criterion),
                                 DictSet(fp_to_slug, fp, slug),
                                 wr \cup {<<"rows", slug>>})

\* A rewrite that replaces nothing.
RewrittenCriteriaKept(criteria, fp_to_slug) == criteria

\* _rewrite_rubric_file: matching criterion dicts become placeholders.
RewrittenCriteria(criteria, fp_to_slug) ==
    [i \in 1..Len(criteria) |->
        IF IsCriterion(criteria[i])
           /\ CriterionFingerprint(criteria[i]) \in DOMAIN fp_to_slug
        THEN Placeholder(fp_to_slug[CriterionFingerprint(criteria[i])])
        ELSE criteria[i]]

RewrittenDoc(doc, fp_to_slug) ==
    IF doc.criteria = <<>> THEN doc
    ELSE [doc EXCEPT !.criteria = RewrittenCriteria(doc.criteria, fp_to_slug)]

\* _deduplicate_rows on the tree t; not reached when pass 1 raised.
Pass2(t) ==
    IF t.raised \/ SharedCriterionFps(t) = {} THEN t
    ELSE LET r == SharedRowsLoop(SortedCriterionFps(SharedCriterionFps(t)),
                                 t, t.rows, <<>>, t.written)
             affected == UNION {CriterionFpFiles(t, fp) : fp \in SharedCriterionFps(t)}
             changed  == {f \in affected :
                             RewrittenDoc(DocAt(t, f), r.fp_to_slug) # DocAt(t, f)}
         IN  [ docs    |-> [p \in DOMAIN t.docs |->
                              IF <<"content", p>> \in affected
                              THEN RewrittenDoc(t.docs[p], r.fp_to_slug)
                              ELSE t.docs[p]],
               shared  |-> [x \in DOMAIN t.shared |->
                              IF <<"rubrics", x>> \in affected
                              THEN RewrittenDoc(t.shared[x], r.fp_to_slug)
                              ELSE t.shared[x]],
               rows    |-> r.rows,
               written |-> r.written \cup changed,
               raised  |-> FALSE ]

\* deduplicate_rubric_rows: pass 1, then pass 2; written starts empty.
Deduplicated(docs, shared, rows) ==
    Pass2(Pass1([docs |-> docs, shared |-> shared, rows |-> rows, written |-> {},
                 raised |-> FALSE]))

MaxEdits == 4
MaxRuns == 2

IdleRegistry ==
    /\ disk = [f \in FileLocs |-> Absent]
    /\ assets = <<>>
    /\ asset_keys = <<>>
    /\ path_lookup = <<>>
    /\ document = Missing
    /\ now = 0
    /\ last = NoOp

\* An output directory no import has written to.
InitRubrics ==
    IdleRegistry /\ IdleRubrics /\ IdleExtract /\ IdleResources /\ IdleManifest /\ IdleWriters
    /\ IdleImport

\* write_content_item, lines 1391-1402: an import writes the rubric.yaml of an
\* assignment, over the one an earlier import left there.
ImportDoc(path, doc) ==
    /\ edits < MaxEdits
    /\ rubric_docs' = DictSet(rubric_docs, path, doc)
    /\ edits' = edits + 1
    /\ clean_runs' = 0
    /\ UNCHANGED <<shared_rubrics, row_files, written, raised>>
    /\ UNCHANGED notRubrics

\* deduplicate_rubric_rows(course_dir)
Dedup ==
    /\ clean_runs < MaxRuns
    /\ LET t == Deduplicated(rubric_docs, shared_rubrics, row_files)
       IN  /\ rubric_docs' = t.docs
           /\ shared_rubrics' = t.shared
           /\ row_files' = t.rows
           /\ written' = t.written
           /\ raised' = t.raised
    /\ clean_runs' = clean_runs + 1
    /\ UNCHANGED edits
    /\ UNCHANGED notRubrics

NextRubrics ==
    \/ \E path \in RubricPaths, doc \in ImportedDocs : ImportDoc(path, doc)
    \/ Dedup

SpecRubric == InitRubrics /\ [][NextRubrics]_vars


----------------------------------------------------------------------------
(***************************************************************************)
(* Claims about rubric deduplication.                                      *)
(***************************************************************************)

\* C4: running deduplicate_rubric_rows a second time with no edit in between
\* writes no file under rubrics/ or rubrics/rows/ and rewrites no rubric
\* document.
C4_SecondRunWritesNothing == clean_runs = 2 => written = {}

\* The step is a run of deduplicate_rubric_rows.
DedupStep == clean_runs' = clean_runs + 1

\* The rubric documents before the run: inline ones and shared rubrics.
FilesBefore ==
    {<<"content", p>> : p \in DOMAIN rubric_docs}
        \cup {<<"rubrics", x>> : x \in DOMAIN shared_rubrics}

DocBefore(f) == IF f[1] = "content" THEN rubric_docs[f[2]] ELSE shared_rubrics[f[2]]

\* The documents that hold a criterion normalizing to c as an inline row.
DocsHolding(c) ==
    {f \in FilesBefore :
        \E i \in 1..Len(DocBefore(f).criteria) :
            /\ IsCriterion(DocBefore(f).criteria[i])
            /\ NormalizeEntry(DocBefore(f).criteria[i]) = c}

IsInlineRubric(doc) == doc.use_rubric = "" /\ doc.criteria # <<>>

\* The inline rubric documents whose normalized criteria list is that of p.
DocsWithListOf(p) ==
    {q \in DOMAIN rubric_docs :
        /\ IsInlineRubric(rubric_docs[q])
        /\ NormalizeList(rubric_docs[q].criteria) = NormalizeList(rubric_docs[p].criteria)}

\* C5: a run writes a shared rubric only for a normalized criteria list found
\* in two or more inline rubric documents, and a row file only for a
\* normalized criterion found in two or more rubric documents; a rubric or
\* criterion found in one document only stays inline.
C5_OnlySharedExtracted ==
    [][DedupStep =>
        /\ \A x \in DOMAIN shared_rubrics' \ DOMAIN shared_rubrics :
              \E p \in DOMAIN rubric_docs :
                  /\ IsInlineRubric(rubric_docs[p])
                  /\ Cardinality(DocsWithListOf(p)) >= 2
                  /\ shared_rubrics'[x].title = rubric_docs[p].title
                  /\ Len(shared_rubrics'[x].criteria) = Len(rubric_docs[p].criteria)
        /\ \A x \in DOMAIN row_files' \ DOMAIN row_files :
              Cardinality(DocsHolding(NormalizeEntry(row_files'[x]))) >= 2
        /\ \A p \in DOMAIN rubric_docs :
              (IsInlineRubric(rubric_docs[p]) /\ Cardinality(DocsWithListOf(p)) = 1)
                  => rubric_docs'[p].use_rubric = ""
        /\ \A p \in DOMAIN rubric_docs :
              \A i \in 1..Len(rubric_docs[p].criteria) :
                  (/\ IsCriterion(rubric_docs[p].criteria[i])
                   /\ Cardinality(DocsHolding(NormalizeEntry(rubric_docs[p].criteria[i]))) = 1)
                  => /\ Len(rubric_docs'[p].criteria) = Len(rubric_docs[p].criteria)
                     /\ rubric_docs'[p].criteria[i] = rubric_docs[p].criteria[i]
    ]_vars

\* A run extracted a shared row and left a document with a placeholder beside
\* a criterion that no other document holds.
C5_Witness ==
    /\ clean_runs = 1
    /\ \E x \in DOMAIN row_files : <<"rows", x>> \in written
    /\ \E p \in DOMAIN rubric_docs :
          /\ <<"content", p>> \in written
          /\ \E i, j \in 1..Len(rubric_docs[p].criteria) :
                /\ ~IsCriterion(rubric_docs[p].criteria[i])
                /\ IsCriterion(rubric_docs[p].criteria[j])

\* The row files that hold a criterion normalizing to c, after the run.
RowSlugsAfter(c) == {x \in DOMAIN row_files' : NormalizeEntry(row_files'[x]) = c}

\* Document p holds, after the run, the placeholder of the one row file of c
\* in place of every row that normalized to c, and every row that no other
\* document held is as it was.
RowReplacedIn(p, c) ==
    /\ Cardinality(RowSlugsAfter(c)) = 1
    /\ Len(rubric_docs'[p].criteria) = Len(rubric_docs[p].criteria)
    /\ \A i \in 1..Len(rubric_docs[p].criteria) :
          LET e == rubric_docs[p].criteria[i] IN
          /\ (IsCriterion(e) /\ NormalizeEntry(e) = c)
                => \E x \in RowSlugsAfter(c) : rubric_docs'[p].criteria[i] = Placeholder(x)
          /\ (IsCriterion(e) /\ Cardinality(DocsHolding(NormalizeEntry(e))) = 1)
                => rubric_docs'[p].criteria[i] = e
          /\ ~IsCriterion(e) => rubric_docs'[p].criteria[i] = e

SharedByTwo(p1, p2, c) ==
    /\ p1 # p2
    /\ <<"content", p1>> \in DocsHolding(c)
    /\ <<"content", p2>> \in DocsHolding(c)

----------------------------------------------------------------------------
(***************************************************************************)
(* extract_cartridge (import_cartridge.py, lines 215-366).                 *)
(* A member name is the sequence of its characters.  Sizes are counted in  *)
(* a unit that scales the ceilings down: 3 units per file (50 MB in the    *)
(* source), 7 units in total (500 MB), 3 members (10000) and a compression *)
(* ratio of 2 (100).  The file system is POSIX.                            *)
(***************************************************************************)

MAX_TOTAL_SIZE == 7
MAX_FILE_SIZE == 3
MAX_FILES == 3
MAX_COMPRESSION_RATIO == 2

MaxMembers == 4

\* tempfile.mkdtemp(prefix="zaphod_import_")
temp_dir == <<"/", "tmp", "zaphod_import_">>

Entry(name, file_size, compress_size) ==
    [name |-> name, file_size |-> file_size, compress_size |-> compress_size]

\* The entries a cartridge is made of: plain files, a second entry under the
\* name of the first, a file over the per-file ceiling, a file over the ratio
\* ceiling, and names that are absolute, carry a drive letter, or step up.
Entries ==
    { Entry(<<"a">>, 1, 1),
      Entry(<<"d", "/", "b">>, 3, 2),
      Entry(<<"a">>, 3, 2),
      Entry(<<"c">>, 4, 2),
      Entry(<<"z">>, 3, 1),
      Entry(<<"/", "e">>, 1, 1),
      Entry(<<"C", ":", "e">>, 1, 1),
      Entry(<<"d", "/", ".", ".", "/", "e">>, 1, 1) }

Archives == UNION {[1..n -> Entries] : n \in 0..MaxMembers}

\* str.split(sep): the parts of a name, as strings.
RECURSIVE SplitFrom(_, _, _, _)
SplitFrom(chars, sep, part, parts) ==
    IF chars = <<>> THEN Append(parts, part)
    ELSE IF Head(chars) = sep
         THEN SplitFrom(Tail(chars), sep, "", Append(parts, part))
         ELSE SplitFrom(Tail(chars), sep, part \o Head(chars), parts)

Split(chars, sep) == SplitFrom(chars, sep, "", <<>>)

\* str.replace(old, new) for single characters
ReplaceChar(chars, old, new) ==
    [i \in 1..Len(chars) |-> IF chars[i] = old THEN new ELSE chars[i]]

\* line 249, "NUL" standing for the null byte
dangerous_chars == {"NUL", "<", ">", "|", "?", "*"}

\* The validation without its test for ".." parts.
is_safe_member_name_no_parent(member) ==
    /\ member # <<>>
    /\ ~(member[1] = "/" \/ member[1] = "\\")
    /\ ~(Len(member) >= 2 /\ member[2] = ":")
    /\ \A i \in 1..Len(member) : member[i] \notin dangerous_chars

is_safe_member_name(member) ==
    /\ member # <<>>
    /\ ~(member[1] = "/" \/ member[1] = "\\")
    /\ ~(Len(member) >= 2 /\ member[2] = ":")
    /\ ".." \notin Range(Split(ReplaceChar(member, "\\", "/"), "/"))
    /\ \A i \in 1..Len(member) : member[i] \notin dangerous_chars

\* pathlib's reading of a name: its segments, "/" first when it is absolute.
PathParts(member) ==
    IF member # <<>> /\ member[1] = "/"
    THEN <<"/">> \o PurePath(Split(member, "/"))
    ELSE PurePath(Split(member, "/"))

\* line 342: (temp_dir / member).resolve()
member_path(member) == OsResolve(JoinPath(temp_dir, PathParts(member)))

\* zf.extract(member, temp_dir): zipfile joins the name's segments to the
\* directory after dropping empty, "." and ".." segments.
ExtractTarget(member) ==
    temp_dir \o SelectSeq(Split(member, "/"),
                          LAMBDA x : x # "" /\ x # "." /\ x # "..")

\* zf.namelist() and zf.getinfo(name): a name listed twice has the entry
\* listed last.
namelist(zf) == [i \in 1..Len(zf) |-> zf[i].name]

InfoIndex(zf, name) ==
    CHOOSE i \in 1..Len(zf) :
        zf[i].name = name /\ \A j \in (i + 1)..Len(zf) : zf[j].name # name

getinfo(zf, name) == zf[InfoIndex(zf, name)]

RECURSIVE SumSizes(_)
SumSizes(zf) == IF zf = <<>> THEN 0 ELSE Head(zf).file_size + SumSizes(Tail(zf))

\* line 281
total_size(zf) == SumSizes(zf)

\* A size check that lets every file through.
SkipsNoFile(info) == FALSE

\* lines 297 and 325
SkipsLargeFile(info) == info.file_size > MAX_FILE_SIZE

\* lines 302-306 and 330-334: ratio = file_size / compress_size
SkipsSuspicious(info) ==
    /\ info.file_size > 0
    /\ info.compress_size > 0
    /\ info.file_size > MAX_COMPRESSION_RATIO * info.compress_size

\* An error handler that leaves the scratch directory.
TempDirLeft == TRUE

\* lines 364-365: whether the scratch directory is there after the handler.
TempDirAfterError == FALSE

\* lines 362-366: the handler of every exception, then RuntimeError.
Raise(files) ==
    /\ ext_pc' = "failed"
    /\ temp_exists' = TempDirAfterError
    /\ scratch' = IF TempDirAfterError THEN files ELSE {}

InitExtract ==
    /\ IdleRegistry
    /\ IdleRubrics
    /\ IdleResources
    /\ IdleManifest
    /\ IdleWriters
    /\ IdleImport
    /\ archive \in Archives
    /\ py312 \in BOOLEAN
    /\ ext_pc = "start"
    /\ ext_i = 0
    /\ extracted_size = 0
    /\ temp_exists = FALSE
    /\ scratch = {}
    /\ extracted = {}

\* line 275: the file is no zip archive (zipfile.BadZipFile).
OpenRaises ==
    /\ ext_pc = "start"
    /\ Raise({})
    /\ UNCHANGED <<archive, py312, ext_i, extracted_size, extracted>>
    /\ UNCHANGED notExtract

\* lines 266-285: mkdtemp, the member-count check, the declared-size check.
Open ==
    /\ ext_pc = "start"
    /\ IF Len(namelist(archive)) > MAX_FILES \/ total_size(archive) > MAX_TOTAL_SIZE
       THEN Raise({}) /\ UNCHANGED <<ext_i, extracted_size>>
       ELSE /\ temp_exists' = TRUE
            /\ scratch' = {}
            /\ extracted_size' = 0
            /\ ext_i' = 1
            /\ ext_pc' = IF py312 THEN "scan" ELSE "extract"
    /\ UNCHANGED <<archive, py312, extracted>>
    /\ UNCHANGED notExtract

\* lines 293-310: one member of the size loop that runs from Python 3.12 on.
ScanMember ==
    /\ ext_pc = "scan"
    /\ ext_i <= Len(archive)
    /\ LET info == getinfo(archive, namelist(archive)[ext_i])
           size == extracted_size + info.file_size
       IN  IF SkipsLargeFile(info) \/ SkipsSuspicious(info)
           THEN /\ ext_i' = ext_i + 1
                /\ UNCHANGED <<ext_pc, extracted_size, temp_exists, scratch>>
           ELSE /\ extracted_size' = size
                /\ IF size > MAX_TOTAL_SIZE
                   THEN Raise(scratch) /\ UNCHANGED ext_i
                   ELSE ext_i' = ext_i + 1 /\ UNCHANGED <<ext_pc, temp_exists, scratch>>
    /\ UNCHANGED <<archive, py312, extracted>>
    /\ UNCHANGED notExtract

\* lines 313-317: ZipFile.extractall takes no filter argument; the TypeError
\* is caught before a member is written and use_filter stays False.
ExtractAllRaises ==
    /\ ext_pc = "scan"
    /\ ext_i > Len(archive)
    /\ ext_pc' = "extract"
    /\ ext_i' = 1
    /\ UNCHANGED <<archive, py312, extracted_size, temp_exists, scratch, extracted>>
    /\ UNCHANGED notExtract

\* lines 322-349: the member passes every check before zf.extract.
ReachesExtract(member, info) ==
    /\ ~SkipsLargeFile(info)
    /\ ~SkipsSuspicious(info)
    /\ is_safe_member_name(member)
    /\ IsRelativeTo(member_path(member), OsResolve(temp_dir))

\* lines 321-357: one member of the manual loop.
ExtractMember ==
    /\ ext_pc = "extract"
    /\ ext_i <= Len(archive)
    /\ LET member == namelist(archive)[ext_i]
           info   == getinfo(archive, member)
           size   == extracted_size + info.file_size
           file   == [target |-> ExtractTarget(member),
                      entry |-> InfoIndex(archive, member)]
           files  == {f \in scratch : f.target # file.target} \cup {file}
       IN  IF ~ReachesExtract(member, info)
           THEN /\ ext_i' = ext_i + 1
                /\ UNCHANGED <<ext_pc, extracted_size, temp_exists, scratch, extracted>>
           ELSE /\ extracted' = extracted \cup
                       {[member |-> ext_i, entry |-> file.entry, target |-> file.target]}
                /\ extracted_size' = size
                /\ IF size > MAX_TOTAL_SIZE
                   THEN Raise(files) /\ UNCHANGED ext_i
                   ELSE /\ scratch' = files
                        /\ ext_i' = ext_i + 1
                        /\ UNCHANGED <<ext_pc, temp_exists>>
    /\ UNCHANGED <<archive, py312>>
    /\ UNCHANGED notExtract

\* line 352: zf.extract raises (corrupt data, a full disk).
ExtractMemberRaises ==
    /\ ext_pc = "extract"
    /\ ext_i <= Len(archive)
    /\ ReachesExtract(namelist(archive)[ext_i],
                      getinfo(archive, namelist(archive)[ext_i]))
    /\ Raise(scratch)
    /\ UNCHANGED <<archive, py312, ext_i, extracted_size, extracted>>
    /\ UNCHANGED notExtract

\* lines 359-360: return temp_dir
ExtractReturns ==
    /\ ext_pc = "extract"
    /\ ext_i > Len(archive)
    /\ ext_pc' = "done"
    /\ UNCHANGED <<archive, py312, ext_i, extracted_size, temp_exists, scratch, extracted>>
    /\ UNCHANGED notExtract

NextExtract ==
    \/ OpenRaises
    \/ Open
    \/ ScanMember
    \/ ExtractAllRaises
    \/ ExtractMember
    \/ ExtractMemberRaises
    \/ ExtractReturns

SpecExtract == InitExtract /\ [][NextExtract]_vars


----------------------------------------------------------------------------
(***************************************************************************)
(* Claims about extract_cartridge.                                         *)
(***************************************************************************)

\* A name that is absolute, has a drive-letter prefix or a ".." segment.
NameIsUnsafe(member) ==
    /\ member # <<>>
    /\ \/ member[1] = "/"
       \/ Len(member) >= 2 /\ member[2] = ":"
       \/ ".." \in Range(Split(member, "/"))

DeclaredTooLarge(info) == info.file_size > MAX_FILE_SIZE

RatioTooHigh(info) ==
    /\ info.file_size > 0
    /\ info.compress_size > 0
    /\ info.file_size > MAX_COMPRESSION_RATIO * info.compress_size

\* The entry zf.getinfo gives for the i-th name of the archive.
InfoOf(i) == getinfo(archive, archive[i].name)

\* The i-th member is one the extractor has to write.
Wanted(i) ==
    /\ ~NameIsUnsafe(archive[i].name)
    /\ ~DeclaredTooLarge(InfoOf(i))
    /\ ~RatioTooHigh(InfoOf(i))

WasExtracted(i) == \E x \in extracted : x.member = i

\* C7: no file is ever created outside the scratch directory; a member whose
\* name is absolute, has a drive letter or a ".." segment is never written,
\* and when extraction returns the other members have been extracted.
C7_NothingOutsideScratch ==
    /\ \A f \in scratch :
          IsRelativeTo(f.target, temp_dir) /\ Len(f.target) > Len(temp_dir)
    /\ \A x \in extracted :
          /\ IsRelativeTo(x.target, temp_dir)
          /\ Len(x.target) > Len(temp_dir)
          /\ ~NameIsUnsafe(archive[x.member].name)
    /\ ext_pc = "done" =>
          \A i \in 1..Len(archive) :
              (~NameIsUnsafe(archive[i].name) /\ Wanted(i)) => WasExtracted(i)

\* extract_cartridge returned for an archive with an unsafe name and a member
\* that it wrote.
C7_Witness ==
    /\ ext_pc = "done"
    /\ \E i \in 1..Len(archive) : NameIsUnsafe(archive[i].name)
    /\ scratch # {}

\* C8: an archive over the member-count or declared-size ceiling fails with
\* no member extracted, and after every failure the scratch directory is
\* gone.
C8_FailureLeavesNoScratch ==
    /\ (Len(archive) > MAX_FILES \/ SumSizes(archive) > MAX_TOTAL_SIZE)
          => /\ ext_pc \in {"start", "failed"}
             /\ extracted = {}
             /\ scratch = {}
    /\ ext_pc = "failed" => (~temp_exists /\ scratch = {})

\* extract_cartridge failed for an archive within the member-count ceiling
\* and over the declared-size ceiling.
C8_Witness ==
    /\ ext_pc = "failed"
    /\ Len(archive) <= MAX_FILES
    /\ SumSizes(archive) > MAX_TOTAL_SIZE

\* The loop is at a member over the per-file or the ratio ceiling.
AtSkippedMember ==
    /\ ext_pc \in {"scan", "extract"}
    /\ ext_i <= Len(archive)
    /\ DeclaredTooLarge(InfoOf(ext_i)) \/ RatioTooHigh(InfoOf(ext_i))

\* C9: a member over the per-file ceiling or over the ratio ceiling is never
\* written; the loop passes it without failing and without a write, and when
\* extraction returns the remaining members have been extracted.
C9_OversizeMemberSkipped ==
    /\ [](\A x \in extracted :
              ~DeclaredTooLarge(archive[x.entry]) /\ ~RatioTooHigh(archive[x.entry]))
    /\ [](ext_pc = "done" => \A i \in 1..Len(archive) : Wanted(i) => WasExtracted(i))
    /\ [][AtSkippedMember =>
              /\ ext_pc' = ext_pc
              /\ ext_i' = ext_i + 1
              /\ UNCHANGED <<extracted_size, temp_exists, scratch, extracted>>]_vars

\* extract_cartridge returned for an archive with a member over a ceiling and
\* a member that it wrote.
C9_Witness ==
    /\ ext_pc = "done"
    /\ \E i \in 1..Len(archive) : DeclaredTooLarge(InfoOf(i)) \/ RatioTooHigh(InfoOf(i))
    /\ extracted # {}


----------------------------------------------------------------------------
(***************************************************************************)
(* process_resources (import_cartridge.py, lines 487-586).                 *)
(* A declared type and a file path are sequences of pieces of the string,  *)
(* cut where the markers and suffixes the code looks for begin and end, so *)
(* that "marker in s.lower()" is "a piece of s, lower-cased, is marker"    *)
(* and s.endswith(suffix) looks at the last piece.                         *)
(***************************************************************************)

MaxResources == 2

ResourceTypes ==
    { <<"webcontent">>,
      <<"WebContent">>,
      <<"associatedcontent", "/imscc_xmlv1p1/", "learning-application-resource">>,
      <<"associatedcontent", "/imscc_xmlv1p1">>,
      <<"assignment", "_xmlv1p0">>,
      <<"imsqti", "_xmlv1p2/imscc_xmlv1p1/", "assessment">>,
      <<"imsqti", "_xmlv1p2/", "objectbank">>,
      <<"imswl", "_xmlv1p1">>,
      <<"imsdt_xmlv1p1">> }

\* str.lower()
Lower(piece) == CASE piece = "WebContent" -> "webcontent"
                  [] piece = "Item Bank"  -> "item bank"
                  [] piece = "Quiz 1"     -> "quiz 1"
                  [] OTHER -> piece

\* marker in resource.resource_type.lower()
TypeContains(resource_type, marker) ==
    \E i \in 1..Len(resource_type) : Lower(resource_type[i]) = marker

RECURSIVE Joined(_)
Joined(pieces) == IF pieces = <<>> THEN "" ELSE Head(pieces) \o Joined(Tail(pieces))

AssignmentXml == <<"g1/", "assignment.xml">>
AssessmentXml == <<"q1/", "assessment.xml">>
PageHtml == <<"wiki_content/p1", ".html">>
AssetFile == <<"web_resources/assets/", "img.png">>
AssetFile2 == <<"web_resources/assets/", "sub/", "img.png">>
\* a <file href> the manifest is free to hold (parse_resource, lines 416-420,
\* keeps every non-empty href): a path that steps to the parent directory
OutsideFile == <<"../", "secret.png">>

FileLists == { <<>>, <<AssignmentXml>>, <<PageHtml, AssignmentXml>>, <<AssessmentXml>>,
               <<AssetFile>>, <<AssetFile, AssetFile2>>, <<OutsideFile, AssetFile>> }

\* The bytes of a media file of the cartridge: the two images are copies
\* of one another.
MediaBytes(file_path) == "IMG"

\* The suffixes a last piece ends with, among those the code tests.
Suffixes(piece) ==
    CASE piece = "assignment.xml" -> {"assignment.xml", ".xml"}
      [] piece = "assessment.xml" -> {"assessment.xml", ".xml"}
      [] piece = ".html"          -> {".html"}
      [] OTHER                    -> {}

\* file_path.endswith(suffix)
EndsWith(file_path, suffix) ==
    file_path # <<>> /\ suffix \in Suffixes(file_path[Len(file_path)])

\* What DefusedET.parse finds in the assessment file of a resource: no
\* assessment element, or its title, whether a qtimetadatafield says
\* zaphod_inline_questions = True, and whether the elements of the document
\* are in the QTI namespace or in none.
NoAssessment == [parsed |-> FALSE, title |-> "", inline |-> FALSE, namespaced |-> FALSE]

Assessments ==
    {NoAssessment} \cup
    {[parsed |-> TRUE, title |-> c[1], inline |-> c[2], namespaced |-> n] :
        c \in {<<"Quiz 1", FALSE>>, <<"Item Bank", FALSE>>, <<"Item Bank", TRUE>>},
        n \in BOOLEAN}

\* lines 552-554
is_page_resource(resource) == TypeContains(resource.resource_type, "webcontent")

\* lines 557-565
is_assignment_resource(resource) ==
    \/ TypeContains(resource.resource_type, "assignment")
    \/ TypeContains(resource.resource_type, "learning-application-resource")
    \/ \E i \in 1..Len(resource.files) : EndsWith(resource.files[i], "assignment.xml")

\* lines 568-571
is_quiz_resource(resource) ==
    \/ TypeContains(resource.resource_type, "assessment")
    \/ TypeContains(resource.resource_type, "imsqti")

\* lines 574-577
is_link_resource(resource) ==
    \/ TypeContains(resource.resource_type, "imswl")
    \/ TypeContains(resource.resource_type, "weblink")

\* lines 580-586
is_asset_resource(resource) ==
    /\ ~is_assignment_resource(resource)
    /\ \/ TypeContains(resource.resource_type, "associatedcontent")
       \/ Joined(resource.resource_type) = "webcontent"

\* The resources a manifest declares; only the assessment file of a quiz
\* resource holds an assessment.  The href attribute is kept for the
\* resources process_page reads it for.
ResourceShapes ==
    {r \in [resource_type : ResourceTypes, href : {<<>>, PageHtml}, files : FileLists,
            assessment : Assessments] :
        /\ r.assessment.parsed =>
              (is_quiz_resource(r) /\ r.files = <<AssessmentXml>>)
        /\ r.href # <<>> => is_page_resource(r)}

IdentifierOrder == <<"r1", "r2_pool", "r3">>

ResourceTables ==
    UNION {{[i \in 1..n |-> [identifier    |-> IdentifierOrder[i],
                             resource_type |-> shapes[i].resource_type,
                             href          |-> shapes[i].href,
                             files         |-> shapes[i].files,
                             assessment    |-> shapes[i].assessment]] :
               shapes \in [1..n -> ResourceShapes]} : n \in 0..MaxResources}

\* The first index of a sequence that is in S, or 0.
FirstIn(S) == IF S = {} THEN 0 ELSE CHOOSE k \in S : \A j \in S : k <= j

\* lines 640-644: the first file ending in assignment.xml
assignment_xml_path(resource) ==
    FirstIn({k \in 1..Len(resource.files) : EndsWith(resource.files[k], "assignment.xml")})

\* lines 646-647 and parse_assignment_xml, lines 684-739: the keys of the
\* metadata; {} when the file is not there or the parse raised (line 737)
AssignmentMetadata(resource) ==
    LET k == assignment_xml_path(resource) IN
    IF /\ k # 0
       /\ resource.files[k] \in temp_files
       /\ resource.files[k] \notin malformed
    THEN {"title", "points_possible"}
    ELSE {}

\* lines 650-655: the first file ending in .html that is on disk
AssignmentHtml(resource) ==
    FirstIn({k \in 1..Len(resource.files) :
                /\ EndsWith(resource.files[k], ".html")
                /\ resource.files[k] \in temp_files})

\* read_text at line 607 (process_page) or line 654 (process_assignment)
\* raises OSError; nothing in process_resources catches it.
ReadRaises(resource) ==
    IF is_page_resource(resource)
    THEN /\ resource.href # <<>>
         /\ resource.href \in temp_files
         /\ resource.href \in unreadable
    ELSE /\ is_assignment_resource(resource)
         /\ AssignmentHtml(resource) # 0
         /\ resource.files[AssignmentHtml(resource)] \in unreadable

ContentItem(resource, item_type) ==
    [identifier |-> resource.identifier,
     item_type  |-> item_type,
     metadata   |-> CASE item_type = "assignment" -> AssignmentMetadata(resource)
                      [] item_type = "link"       -> {"external_url"}
                      [] OTHER                    -> {}]

\* any(keyword in text for keyword in bank_keywords), lines 851-854
BankKeywordIn(text) == text \in {"item bank", "r2_pool"}

\* lines 840-860: a bank keyword in "identifier title", or an objectbank type
is_question_bank(resource, title) ==
    \/ BankKeywordIn(Lower(resource.identifier))
    \/ BankKeywordIn(Lower(title))
    \/ TypeContains(resource.resource_type, "objectbank")

\* lines 896-921 and 946: metadata.get("zaphod_inline_questions") == "True".
\* The loop at line 901 visits the qtimetadatafield elements of the QTI
\* namespace only (the branch under "if field is None" never runs), so the
\* fields of a document written without namespace are not read.
InlineFlagRead(assessment) == assessment.namespaced /\ assessment.inline

\* lines 875-879: the first file ending in .xml
assessment_path(resource) ==
    FirstIn({k \in 1..Len(resource.files) :
                \/ EndsWith(resource.files[k], "assessment.xml")
                \/ EndsWith(resource.files[k], ".xml")})

\* a process_quiz that returns no bank
QuizOutcomeNoBank(resource) ==
    IF /\ assessment_path(resource) # 0
       /\ resource.files[assessment_path(resource)] \in temp_files \ malformed
       /\ resource.assessment.parsed
       /\ \/ InlineFlagRead(resource.assessment)
          \/ ~is_question_bank(resource, resource.assessment.title)
    THEN "quiz"
    ELSE "none"

\* process_quiz, lines 863-973: "none", "quiz" or "bank"
QuizOutcome(resource) ==
    IF \/ assessment_path(resource) = 0
       \/ resource.files[assessment_path(resource)] \notin temp_files
    THEN "none"
    ELSE IF resource.files[assessment_path(resource)] \in malformed THEN "none"
    ELSE IF ~resource.assessment.parsed THEN "none"
    ELSE IF InlineFlagRead(resource.assessment)
            \/ ~is_question_bank(resource, resource.assessment.title)
    THEN "quiz"
    ELSE "bank"

\* lines 536-541: the files of an asset resource that are on disk
TrackedAssets(tracked, resource) ==
    [f \in DOMAIN tracked \cup {temp_dir \o g : g \in Range(resource.files) \cap temp_files} |->
        IF \E g \in Range(resource.files) \cap temp_files : f = temp_dir \o g
        THEN SelectSeq(RelativeTo(f, temp_dir), LAMBDA x : x # "web_resources/assets/")
        ELSE tracked[f]]

InitResources ==
    /\ IdleRegistry
    /\ IdleRubrics
    /\ IdleExtract
    /\ IdleManifest
    /\ IdleWriters
    /\ IdleImport
    /\ resources \in ResourceTables
    /\ temp_files \in {{}, {AssignmentXml, AssessmentXml, PageHtml, AssetFile, AssetFile2,
                         OutsideFile}}
    /\ malformed \in SUBSET (temp_files \cap {AssignmentXml, AssessmentXml})
    /\ unreadable \in SUBSET (temp_files \cap {PageHtml})
    /\ res_i = 1
    /\ content_items = <<>>
    /\ quizzes = <<>>
    /\ question_banks = <<>>
    /\ cart_assets = <<>>
    /\ returned = FALSE
    /\ res_raised = FALSE
    /\ output_assets = [done |-> FALSE, files |-> <<>>]

\* lines 501-541: one resource of the loop
ProcessResource ==
    /\ ~returned
    /\ ~res_raised
    /\ res_i <= Len(resources)
    /\ ~ReadRaises(resources[res_i])
    /\ LET resource == resources[res_i] IN
       /\ content_items' =
            IF is_page_resource(resource)
            THEN Append(content_items, ContentItem(resource, "page"))
            ELSE IF is_assignment_resource(resource)
            THEN Append(content_items, ContentItem(resource, "assignment"))
            ELSE IF is_quiz_resource(resource) THEN content_items
            ELSE IF is_link_resource(resource)
            THEN Append(content_items, ContentItem(resource, "link"))
            ELSE content_items
       /\ quizzes' =
            IF /\ ~is_page_resource(resource)
               /\ ~is_assignment_resource(resource)
               /\ is_quiz_resource(resource)
               /\ QuizOutcome(resource) = "quiz"
            THEN Append(quizzes, ContentItem(resource, "quiz"))
            ELSE quizzes
       /\ question_banks' =
            IF /\ ~is_page_resource(resource)
               /\ ~is_assignment_resource(resource)
               /\ is_quiz_resource(resource)
               /\ QuizOutcome(resource) = "bank"
            THEN Append(question_banks, ContentItem(resource, "bank"))
            ELSE question_banks
       /\ cart_assets' =
            IF /\ ~is_page_resource(resource)
               /\ ~is_assignment_resource(resource)
               /\ ~is_quiz_resource(resource)
               /\ ~is_link_resource(resource)
               /\ is_asset_resource(resource)
            THEN TrackedAssets(cart_assets, resource)
            ELSE cart_assets
    /\ res_i' = res_i + 1
    /\ UNCHANGED <<resources, temp_files, malformed, unreadable, returned, res_raised,
                   output_assets>>
    /\ UNCHANGED notResources

\* lines 512-520: process_page or process_assignment raises out of the loop
ProcessResourceRaises ==
    /\ ~returned
    /\ ~res_raised
    /\ res_i <= Len(resources)
    /\ ReadRaises(resources[res_i])
    /\ res_raised' = TRUE
    /\ UNCHANGED <<resources, temp_files, malformed, unreadable, res_i, content_items,
                   quizzes, question_banks, cart_assets, returned, output_assets>>
    /\ UNCHANGED notResources

\* lines 543-549
ProcessResourcesReturns ==
    /\ ~returned
    /\ ~res_raised
    /\ res_i > Len(resources)
    /\ returned' = TRUE
    /\ UNCHANGED <<resources, temp_files, malformed, unreadable, res_i, content_items,
                   quizzes, question_banks, cart_assets, res_raised, output_assets>>
    /\ UNCHANGED notResources

\* copy_assets, lines 1588-1612: each tracked source that is a file is
\* copied to assets/<destination>; a later source with the same destination
\* overwrites an earlier one (all media files hold the same bytes here).
CopiedFiles(tracked) ==
    LET sources == {f \in DOMAIN tracked : RelativeTo(f, temp_dir) \in temp_files}
    IN  [dest \in {tracked[f] : f \in sources} |->
            MediaBytes(CHOOSE f \in sources : tracked[f] = dest)]

\* import_cartridge, line 1749
CopyAssets ==
    /\ returned
    /\ ~output_assets.done
    /\ output_assets' = [done |-> TRUE, files |-> CopiedFiles(cart_assets)]
    /\ UNCHANGED <<resources, temp_files, malformed, unreadable, res_i, content_items,
                   quizzes, question_banks, cart_assets, returned, res_raised>>
    /\ UNCHANGED notResources

NextResources ==
    ProcessResource \/ ProcessResourceRaises \/ ProcessResourcesReturns \/ CopyAssets

SpecResources == InitResources /\ [][NextResources]_vars

\* C10: a resource of declared type "webcontent" with a file path ending in
\* assignment.xml is placed in the aggregate as an assignment, not as a page.
C10_AssignmentFileOverridesPage ==
    \A i \in 1..Len(resources) :
        (/\ i < res_i
         /\ Joined(resources[i].resource_type) = "webcontent"
         /\ \E k \in 1..Len(resources[i].files) :
                EndsWith(resources[i].files[k], "assignment.xml"))
        => /\ \E n \in 1..Len(content_items) :
                  content_items[n] = ContentItem(resources[i], "assignment")
           /\ ~\E n \in 1..Len(content_items) :
                  content_items[n] = ContentItem(resources[i], "page")

\* The transformation of a resource fails: a file it parses is malformed
\* or a file it reads is unreadable.
TransformationFails(resource) ==
    \/ ReadRaises(resource)
    \/ /\ ~is_page_resource(resource)
       /\ is_assignment_resource(resource)
       /\ assignment_xml_path(resource) # 0
       /\ resource.files[assignment_xml_path(resource)] \in temp_files \cap malformed
    \/ /\ ~is_page_resource(resource)
       /\ ~is_assignment_resource(resource)
       /\ is_quiz_resource(resource)
       /\ assessment_path(resource) # 0
       /\ resource.files[assessment_path(resource)] \in temp_files \cap malformed

\* The identifiers the aggregate holds an item of.
InAggregate ==
    {content_items[n].identifier : n \in 1..Len(content_items)}
        \cup {quizzes[n].identifier : n \in 1..Len(quizzes)}
        \cup {question_banks[n].identifier : n \in 1..Len(question_banks)}

\* C11: process_resources does not raise when the transformation of a
\* resource fails, and a resource whose transformation failed has no item in
\* the aggregate once the loop has passed it.
C11_FailingResourceDropped ==
    /\ ~res_raised
    /\ \A i \in 1..Len(resources) :
          (i < res_i /\ TransformationFails(resources[i]))
              => resources[i].identifier \notin InAggregate


----------------------------------------------------------------------------
(***************************************************************************)
(* AssetRegistry: the lookups                                              *)
(***************************************************************************)

\* The three steps of the resolution of a query path q, in the registry
\* state as it is: the alias of the index, the entry keyed by the hash of
\* the file at q, the entries with the filename of q.
AliasStep(q) == PurePath(q) \in DOMAIN path_lookup

HashStep(q) ==
    LET f == JoinPath(course_root, PurePath(q)) IN
    IsFile(f) /\ KeyOfFile(f) \in DOMAIN assets

FilenameStep(q) ==
    \E k \in DOMAIN assets : assets[k].filename = PathName(PurePath(q))

\* C12: get_canvas_url(path) returns the URL of the entry found by the first
\* step that succeeds among exact alias, content hash of the file at the
\* path, filename of a tracked entry; it returns None exactly when all three
\* steps fail.
C12_UrlResolutionOrder ==
    \A q \in QueryPaths :
        /\ AliasStep(q) =>
              get_canvas_url(q) = assets[path_lookup[PurePath(q)]].canvas_url
        /\ (~AliasStep(q) /\ HashStep(q)) =>
              get_canvas_url(q) =
                  assets[KeyOfFile(JoinPath(course_root, PurePath(q)))].canvas_url
        /\ (~AliasStep(q) /\ ~HashStep(q) /\ FilenameStep(q)) =>
              \E k \in DOMAIN assets :
                  /\ assets[k].filename = PathName(PurePath(q))
                  /\ get_canvas_url(q) = assets[k].canvas_url
        /\ get_canvas_url(q) = None
              <=> (~AliasStep(q) /\ ~HashStep(q) /\ ~FilenameStep(q))

\* One query is answered by its alias although the file at the path now
\* holds the bytes of another entry with another URL, and another query is
\* answered by the filename alone.
C12_Witness ==
    /\ \E q \in QueryPaths :
          /\ AliasStep(q)
          /\ HashStep(q)
          /\ assets[KeyOfFile(JoinPath(course_root, PurePath(q)))].canvas_url
                # assets[path_lookup[PurePath(q)]].canvas_url
    /\ \E q \in QueryPaths :
          /\ ~AliasStep(q)
          /\ ~HashStep(q)
          /\ FilenameStep(q)
          /\ get_canvas_url(q) # None

\* C13: get_canvas_file_id(path) returns a file id exactly when
\* get_canvas_url(path) returns a URL, and both values are those of one entry.
C13_FileIdResolvesAsUrl ==
    \A q \in QueryPaths :
        /\ get_canvas_file_id(q) = None <=> get_canvas_url(q) = None
        /\ get_canvas_url(q) # None =>
              \E k \in DOMAIN assets :
                  /\ get_canvas_url(q) = assets[k].canvas_url
                  /\ get_canvas_file_id(q) = assets[k].canvas_file_id


----------------------------------------------------------------------------
(***************************************************************************)
(* The registry and its persisted document: registries are constructed     *)
(* from the document, saved to it and pruned, and the document is damaged  *)
(* or removed between the calls.                                           *)
(***************************************************************************)

MaxPersistTracks == 2

InitPersist ==
    /\ IdleRubrics
    /\ IdleExtract
    /\ IdleResources
    /\ IdleManifest
    /\ IdleWriters
    /\ IdleImport
    /\ disk \in [FileLocs -> Contents \cup {Absent}]
    /\ \A f \in FileLocs : disk[f] \in BytesAt(f) \cup {Absent}
    /\ assets = <<>>
    /\ asset_keys = <<>>
    /\ path_lookup = <<>>
    /\ document = Missing
    /\ now = 0
    /\ last = NoOp

\* __init__, lines 70-86, with the _load it ends in
Load ==
    /\ assets' = Loaded(document).assets
    /\ asset_keys' = Loaded(document).asset_keys
    /\ path_lookup' = Loaded(document).path_lookup
    /\ last' = [op |-> "load", path |-> <<>>, key |-> "", result |-> 0]
    /\ UNCHANGED <<disk, document, now>>
    /\ UNCHANGED notRegistry

\* save, lines 102-118; write_text raises on a directory, and save prints
\* the error and returns.
Save ==
    /\ document' = IF document.exists /\ document.form = "unreadable"
                   THEN document
                   ELSE SavedDocument(assets, path_lookup)
    /\ last' = [op |-> "save", path |-> <<>>, key |-> "", result |-> 0]
    /\ UNCHANGED <<disk, assets, asset_keys, path_lookup, now>>
    /\ UNCHANGED notRegistry

\* The document is removed, replaced by something that is no JSON object,
\* or loses a key of its object.
DamageDocument(doc) ==
    /\ document.exists
    /\ document.form = "object"
    /\ document' = doc
    /\ last' = FsOp
    /\ UNCHANGED <<disk, assets, asset_keys, path_lookup, now>>
    /\ UNCHANGED notRegistry

DamagedDocuments ==
    {Missing} \cup {Damaged(form) : form \in DamagedForms}
        \cup {[document EXCEPT !.keys = @ \ {k}] : k \in {"path_lookup"} \cap document.keys}

PersistTrackUpload(local_path, up) ==
    /\ now < MaxPersistTracks
    /\ IsFile(AbsoluteLocalPath(local_path))
    /\ LET r == TrackedRegistry(assets, asset_keys, path_lookup,
                                local_path, up, <<>>, now + 1)
       IN  /\ assets' = r.assets
           /\ asset_keys' = r.asset_keys
           /\ path_lookup' = r.path_lookup
    /\ now' = now + 1
    /\ last' = [op |-> "track_upload", path |-> AbsoluteLocalPath(local_path),
                key |-> HashKeyOf(Md5Hex12(ReadBytes(AbsoluteLocalPath(local_path)))),
                result |-> 0]
    /\ UNCHANGED <<disk, document>>
    /\ UNCHANGED notRegistry

NextPersist ==
    \/ Load
    \/ Save
    \/ \E doc \in DamagedDocuments : DamageDocument(doc)
    \/ \E p \in TrackPaths, up \in Uploads : PersistTrackUpload(p, up)
    \/ \E f \in FileLocs : DeleteFile(f)
    \/ PruneMissing

SpecPersist == InitPersist /\ [][NextPersist]_vars

\* No alias of the entry, taken under the course root, is a file.
NoAliasIsFile(entry) ==
    \A i \in 1..Len(entry.local_paths) :
        ~IsFile(JoinPath(course_root, PurePath(entry.local_paths[i])))

\* C14: prune_missing removes an entry if and only if none of its aliases
\* resolves to an existing file, keeps every other entry as it is and returns
\* the number of entries it removed; track_upload and save remove no entry.
C14_OnlyPruneRemoves ==
    [][ /\ last'.op = "prune_missing" =>
              /\ \A k \in DOMAIN assets :
                    k \notin DOMAIN assets' <=> NoAliasIsFile(assets[k])
              /\ \A k \in DOMAIN assets' :
                    k \in DOMAIN assets /\ assets'[k] = assets[k]
              /\ last'.result = Cardinality(DOMAIN assets \ DOMAIN assets')
        /\ last'.op \in {"track_upload", "save"} =>
              DOMAIN assets \subseteq DOMAIN assets' ]_vars

\* A prune has removed one entry and kept another, which has an alias that
\* is a file and an alias that is none.
C14_Witness ==
    /\ last.op = "prune_missing"
    /\ last.result = 1
    /\ \E k \in DOMAIN assets :
          /\ ~NoAliasIsFile(assets[k])
          /\ \E i \in 1..Len(assets[k].local_paths) :
                ~IsFile(JoinPath(course_root, PurePath(assets[k].local_paths[i])))

\* C15: a track_upload for a file whose content hash has an entry already
\* replaces that entry's remote id, URL and timestamp only: content hash,
\* byte size, filename and every alias recorded before are kept, and no
\* other entry changes.
C15_ReuploadKeepsEntry ==
    [][ (last'.op = "track_upload" /\ last'.key \in DOMAIN assets) =>
            /\ DOMAIN assets' = DOMAIN assets
            /\ assets'[last'.key].content_hash = assets[last'.key].content_hash
            /\ assets'[last'.key].file_size = assets[last'.key].file_size
            /\ assets'[last'.key].filename = assets[last'.key].filename
            /\ \A i \in 1..Len(assets[last'.key].local_paths) :
                  assets[last'.key].local_paths[i]
                      \in {assets'[last'.key].local_paths[j] :
                              j \in 1..Len(assets'[last'.key].local_paths)}
            /\ \A k \in DOMAIN assets \ {last'.key} : assets'[k] = assets[k] ]_vars

\* The entry of the last upload was created by an earlier one under another
\* path, and there is a second entry.
C15_Witness ==
    /\ last.op = "track_upload"
    /\ last.key \in DOMAIN assets
    /\ Cardinality(DOMAIN assets) = 2
    /\ Len(assets[last.key].local_paths) >= 3
    /\ assets[last.key].uploaded_at = now

\* C16: a track_upload that follows a track_upload of the same path, with
\* the file unchanged and the same remote id, leaves the length of the
\* entry's alias list, the set of entries and the path index as they were.
C16_RepeatedTrackChangesNothing ==
    [][ ( /\ last.op = "track_upload"
          /\ last'.op = "track_upload"
          /\ last'.path = last.path
          /\ last'.key = last.key
          /\ assets'[last'.key].canvas_file_id = assets[last.key].canvas_file_id )
        => /\ Len(assets'[last.key].local_paths) = Len(assets[last.key].local_paths)
           /\ DOMAIN assets' = DOMAIN assets
           /\ path_lookup' = path_lookup ]_vars

\* Two uploads have been tracked, nothing was pruned, and there is one entry
\* with the aliases of one path: both uploads were of that path.
C16_Witness ==
    /\ last.op = "track_upload"
    /\ now = 2
    /\ document = Missing
    /\ DOMAIN assets = {last.key}
    /\ assets[last.key].uploaded_at = 2
    /\ Len(assets[last.key].local_paths) = 2
    /\ DOMAIN path_lookup = {assets[last.key].local_paths[i] : i \in 1..2}

\* The document is a JSON object with the three keys save writes.
WellFormed(doc) == doc.exists /\ doc.form = "object" /\ doc.keys = DocumentKeys

\* C17: a registry constructed from a missing, unreadable or malformed
\* document is empty, never partially loaded (a constructed registry is
\* empty or holds the whole of a well-formed document), and after a save
\* the document is well-formed and holds the registry.
C17_LoadIsAllOrNothing ==
    /\ last.op = "load" =>
          \/ assets = <<>> /\ path_lookup = <<>>
          \/ /\ WellFormed(document)
             /\ assets = document.assets
             /\ path_lookup = document.path_lookup
    /\ last.op = "save" =>
          /\ WellFormed(document)
          /\ document.assets = assets
          /\ document.path_lookup = path_lookup


----------------------------------------------------------------------------
(***************************************************************************)
(* Rubric deduplication on a course that has a shared store already: four  *)
(* assignments were imported and deduplicated, two of them were imported   *)
(* again with other rubrics and the course was deduplicated again.  From   *)
(* there, assignments are imported again and the course is deduplicated.   *)
(***************************************************************************)

MaxStoreEdits == 2

StorePaths == Range(RubricPathOrder)

\* The rubrics the later imports write.
StoreDocs ==
    { RubricDoc("", <<CritC>>),
      RubricDoc("", <<CritA>>),
      RubricDoc("", <<CritA, CritB>>),
      RubricDoc("Essay", <<CritC>>) }

\* import_cartridge, lines 1680-1768, twice: the imports write the rubric
\* documents, then deduplicate_rubric_rows runs (line 1753).
FirstImport ==
    Deduplicated([p \in StorePaths |->
                     CASE p = RubricPathOrder[1] -> RubricDoc("", <<CritA, CritB>>)
                       [] p = RubricPathOrder[2] -> RubricDoc("", <<CritA>>)
                       [] OTHER                  -> RubricDoc("", <<CritC>>)],
                 <<>>, <<>>)

SecondImport ==
    Deduplicated([p \in StorePaths |->
                     CASE p = RubricPathOrder[2] -> RubricDoc("", <<CritA, CritB>>)
                       [] p = RubricPathOrder[3] -> RubricDoc("", <<CritA>>)
                       [] OTHER                  -> FirstImport.docs[p]],
                 FirstImport.shared, FirstImport.rows)

InitRubricStore ==
    /\ IdleRegistry
    /\ IdleExtract
    /\ IdleResources
    /\ IdleManifest
    /\ IdleWriters
    /\ IdleImport
    /\ rubric_docs = SecondImport.docs
    /\ shared_rubrics = SecondImport.shared
    /\ row_files = SecondImport.rows
    /\ written = SecondImport.written
    /\ raised = SecondImport.raised
    /\ clean_runs = 1
    /\ edits = 0

StoreImportDoc(path, doc) ==
    /\ edits < MaxStoreEdits
    /\ rubric_docs' = DictSet(rubric_docs, path, doc)
    /\ edits' = edits + 1
    /\ clean_runs' = 0
    /\ UNCHANGED <<shared_rubrics, row_files, written, raised>>
    /\ UNCHANGED notRubrics

NextRubricStore ==
    \/ \E path \in StorePaths, doc \in StoreDocs : StoreImportDoc(path, doc)
    \/ Dedup

SpecRubricStore == InitRubricStore /\ [][NextRubricStore]_vars

\* The tree as it is, and as pass 1 leaves it.
TreeNow ==
    [docs |-> rubric_docs, shared |-> shared_rubrics, rows |-> row_files,
     written |-> {}, raised |-> FALSE]

AfterPass1 == Pass1(TreeNow)

\* The slugs of the store whose normalized criteria list is that of doc.
StoreSlugsOf(doc) ==
    {slug \in DOMAIN shared_rubrics :
        NormalizeList(shared_rubrics[slug].criteria) = NormalizeList(doc.criteria)}

\* Two or more inline rubric documents hold the normalized list of p.
InCandidateGroup(p) ==
    /\ IsInlineRubric(rubric_docs[p])
    /\ \E q \in DOMAIN rubric_docs \ {p} :
          /\ IsInlineRubric(rubric_docs[q])
          /\ NormalizeList(rubric_docs[q].criteria) = NormalizeList(rubric_docs[p].criteria)

\* C18: from every tree, pass 1 rewrites each document of a candidate group
\* whose normalized list is that of a rubric of the store to a reference to
\* such a rubric and writes no shared rubric with that list; and it leaves
\* every shared rubric that was in the store as it was.
C18_ExistingSharedRubricReused ==
    /\ \A p \in DOMAIN rubric_docs :
          (InCandidateGroup(p) /\ StoreSlugsOf(rubric_docs[p]) # {}) =>
              /\ AfterPass1.docs[p].use_rubric \in StoreSlugsOf(rubric_docs[p])
              /\ \A slug \in DOMAIN AfterPass1.shared \ DOMAIN shared_rubrics :
                    NormalizeList(AfterPass1.shared[slug].criteria)
                        # NormalizeList(rubric_docs[p].criteria)
    /\ \A slug \in DOMAIN shared_rubrics :
          /\ slug \in DOMAIN AfterPass1.shared
          /\ AfterPass1.shared[slug] = shared_rubrics[slug]

\* C20: when two media files of the cartridge with the same bytes are
\* tracked under two different paths, the output assets/ directory holds
\* exactly one file with those bytes after copy_assets.
C20_OneCopyOfIdenticalMedia ==
    output_assets.done =>
        \A f, g \in DOMAIN cart_assets :
            (f # g /\ MediaBytes(RelativeTo(f, temp_dir)) = MediaBytes(RelativeTo(g, temp_dir)))
                => Cardinality({dest \in DOMAIN output_assets.files :
                                   output_assets.files[dest]
                                       = MediaBytes(RelativeTo(f, temp_dir))}) = 1

-----------------------------------------------------------------------------
(***************************************************************************)
(* The manifest: parse_manifest and parse_modules.  An element is its      *)
(* qualified tag <<namespace URI, local name>>, its attributes, its text   *)
(* and its children in document order; an Optional[Element] is a sequence  *)
(* of no or one element.                                                   *)
(***************************************************************************)
MaxManifestResources == 2
MaxManifestModules == 2

\* NS, lines 72-77, in dict order
NS == << "http://www.imsglobal.org/xsd/imsccv1p3/imscp_v1p1",
         "http://ltsc.ieee.org/xsd/imsccv1p3/LOM/resource",
         "http://ltsc.ieee.org/xsd/imsccv1p3/LOM/manifest",
         "http://www.w3.org/2001/XMLSchema-instance" >>

NoNamespace == ""

KnownNamespaces == Range(NS) \cup {NoNamespace}

\* Element.get(name, ""): an attribute that is not written reads as ""
NoAttrib == [identifier |-> "", identifierref |-> "", type |-> "", href |-> ""]

Element(uri, name, attrib, text, children) ==
    [tag |-> <<uri, name>>, attrib |-> attrib, text |-> text, children |-> children]

\* Element.findall(tag): the direct children with that qualified tag, by
\* position
FindAll(elem, qtag) ==
    SelectSeq([i \in 1..Len(elem.children) |-> i],
              LAMBDA i : elem.children[i].tag = qtag)

\* Element.find(tag): the first of them, or None
Find(elem, qtag) ==
    LET hits == FindAll(elem, qtag)
    IN  IF hits = <<>> THEN <<>> ELSE <<elem.children[hits[1]]>>

\* a lookup that knows one namespace only
find_ns_rigid(elem, tag) == Find(elem, <<NS[1], tag>>)

RECURSIVE FindNsFrom(_, _, _)
FindNsFrom(elem, tag, k) ==
    IF k > Len(NS)
    THEN Find(elem, <<NoNamespace, tag>>)
    ELSE LET result == Find(elem, <<NS[k], tag>>)
         IN  IF result # <<>> THEN result ELSE FindNsFrom(elem, tag, k + 1)

\* lines 159-175
find_ns(elem, tag) == FindNsFrom(elem, tag, 1)

RECURSIVE FindAllNsFrom(_, _, _)
FindAllNsFrom(elem, tag, k) ==
    IF k > Len(NS)
    THEN FindAll(elem, <<NoNamespace, tag>>)
    ELSE FindAll(elem, <<NS[k], tag>>) \o FindAllNsFrom(elem, tag, k + 1)

\* lines 192-199: the first occurrence of each element, by id()
RECURSIVE UniqueById(_)
UniqueById(ids) ==
    IF ids = <<>>
    THEN <<>>
    ELSE <<Head(ids)>> \o UniqueById(SelectSeq(Tail(ids), LAMBDA x : x # Head(ids)))

\* lines 178-201
findall_ns(elem, tag) ==
    LET unique == UniqueById(FindAllNsFrom(elem, tag, 1))
    IN  [i \in 1..Len(unique) |-> elem.children[unique[i]]]

\* lines 203-207
get_text(elem, default) ==
    IF elem # <<>> /\ elem[1].text # "" THEN Strip(elem[1].text) ELSE default

\* lines 406-427: None is the empty sequence
parse_resource(resource_elem) ==
    LET file_elems == findall_ns(resource_elem, "file")
        hrefs == [i \in 1..Len(file_elems) |-> file_elems[i].attrib.href]
    IN  IF resource_elem.attrib.identifier = ""
        THEN <<>>
        ELSE << [identifier |-> resource_elem.attrib.identifier,
                 resource_type |-> resource_elem.attrib.type,
                 href |-> resource_elem.attrib.href,
                 files |-> SelectSeq(hrefs, LAMBDA h : h # "")] >>

\* resources[resource.identifier] = resource on a dict kept in insertion order
TableSet(table, resource) ==
    IF \E i \in DOMAIN table : table[i].identifier = resource.identifier
    THEN [i \in DOMAIN table |->
            IF table[i].identifier = resource.identifier THEN resource ELSE table[i]]
    ELSE Append(table, resource)

\* lines 396-399
RECURSIVE ResourceTable(_, _)
ResourceTable(elems, table) ==
    IF elems = <<>>
    THEN table
    ELSE LET resource == parse_resource(Head(elems))
         IN  ResourceTable(Tail(elems),
                           IF resource = <<>> THEN table ELSE TableSet(table, resource[1]))

\* lines 373-403, for a manifest that is there and well-formed
parse_manifest(root) ==
    LET resources_elem == find_ns(root, "resources")
    IN  IF resources_elem = <<>>
        THEN <<>>
        ELSE ResourceTable(findall_ns(resources_elem[1], "resource"), <<>>)

\* lines 458-480
parse_module_item(item_elem, position) ==
    LET sub_items == findall_ns(item_elem, "item")
        refs == [i \in 1..Len(sub_items) |-> sub_items[i].attrib.identifierref]
    IN  IF item_elem.attrib.identifier = ""
        THEN <<>>
        ELSE << [identifier |-> item_elem.attrib.identifier,
                 title |-> get_text(find_ns(item_elem, "title"),
                                    item_elem.attrib.identifier),
                 position |-> position,
                 items |-> SelectSeq(refs, LAMBDA r : r # "")] >>

\* lines 447-452: position is the number of modules appended so far
RECURSIVE ModuleList(_, _)
ModuleList(elems, modules) ==
    IF elems = <<>>
    THEN modules
    ELSE LET module == parse_module_item(Head(elems), Len(modules))
         IN  ModuleList(Tail(elems), modules \o module)

\* lines 434-455
parse_modules(manifest_root_elem) ==
    LET organizations_elem == find_ns(manifest_root_elem, "organizations")
        organization_elem ==
            IF organizations_elem = <<>>
            THEN <<>>
            ELSE find_ns(organizations_elem[1], "organization")
    IN  IF organization_elem = <<>>
        THEN <<>>
        ELSE ModuleList(findall_ns(organization_elem[1], "item"), <<>>)

\* What a manifest says: <resource> entries (identifier, type, href and
\* <file> hrefs, any of which may be left out) and top-level <item> entries
\* (identifier, an optional <title>, the identifierrefs of its sub-items, and
\* the identifierrefs of the items nested below its first sub-item).
LogicalResources ==
    {r \in [identifier : {"", "r1", "r2"}, resource_type : {"webcontent"},
            href : {"", "a.html"}, files : {<<>>, <<"a.html", "", "b.png">>}] :
        r.href # "" => r.files # <<>>}

LogicalModules ==
    {m \in [identifier : {"", "m1"}, title : {None, "", " Week 1 "},
            items : {<<>>, <<"r2", "", "r1">>}, nested : {<<>>, <<"r3">>}] :
        /\ m.title = None => m.items = <<>>
        /\ m.title = "" => m.items # <<>>
        /\ m.nested # <<>> => (m.items # <<>> /\ m.title = " Week 1 ")}

SeqsUpTo(S, n) == UNION {[1..k -> S] : k \in 0..n}

LogicalManifests ==
    [resources : SeqsUpTo(LogicalResources, MaxManifestResources),
     modules : SeqsUpTo(LogicalModules, MaxManifestModules)]

ResourceElem(uri, r) ==
    Element(uri, "resource",
            [NoAttrib EXCEPT !.identifier = r.identifier, !.type = r.resource_type,
                             !.href = r.href],
            "",
            [i \in 1..Len(r.files) |->
                Element(uri, "file", [NoAttrib EXCEPT !.href = r.files[i]], "", <<>>)])

ItemElem(uri, m) ==
    Element(uri, "item", [NoAttrib EXCEPT !.identifier = m.identifier], "",
            (IF m.title = None THEN <<>>
             ELSE <<Element(uri, "title", NoAttrib, m.title, <<>>)>>)
            \o [i \in 1..Len(m.items) |->
                  Element(uri, "item",
                          [NoAttrib EXCEPT !.identifier = "i", !.identifierref = m.items[i]],
                          "",
                          IF i = 1
                          THEN [j \in 1..Len(m.nested) |->
                                  Element(uri, "item",
                                          [NoAttrib EXCEPT !.identifier = "j",
                                                           !.identifierref = m.nested[j]],
                                          "", <<>>)]
                          ELSE <<>>)])

\* The manifest document that says m with its structural elements in the
\* namespace uri; the descriptive metadata block keeps its own namespace.
Express(m, uri) ==
    Element(uri, "manifest", [NoAttrib EXCEPT !.identifier = "manifest"], "",
        << Element(uri, "metadata", NoAttrib, "",
             << Element(NS[3], "lom", NoAttrib, "",
                  << Element(NS[3], "title", NoAttrib, "Course", <<>>) >>) >>),
           Element(uri, "organizations", NoAttrib, "",
             << Element(uri, "organization", [NoAttrib EXCEPT !.identifier = "org"], "",
                  [i \in 1..Len(m.modules) |-> ItemElem(uri, m.modules[i])]) >>),
           Element(uri, "resources", NoAttrib, "",
             [i \in 1..Len(m.resources) |-> ResourceElem(uri, m.resources[i])]) >>)

InitManifest ==
    /\ IdleRegistry
    /\ IdleRubrics
    /\ IdleExtract
    /\ IdleResources
    /\ IdleWriters
    /\ IdleImport
    /\ logical \in LogicalManifests
    /\ namespace \in KnownNamespaces
    /\ manifest_root = Express(logical, namespace)
    /\ man_pc = "start"
    /\ man_resources = <<>>
    /\ man_modules = <<>>

\* import_cartridge, line 1704
ParseManifest ==
    /\ man_pc = "start"
    /\ man_resources' = parse_manifest(manifest_root)
    /\ man_pc' = "manifest"
    /\ UNCHANGED <<logical, namespace, manifest_root, man_modules>>
    /\ UNCHANGED notManifest

\* import_cartridge, line 1708
ParseModules ==
    /\ man_pc = "manifest"
    /\ man_modules' = parse_modules(manifest_root)
    /\ man_pc' = "modules"
    /\ UNCHANGED <<logical, namespace, manifest_root, man_resources>>
    /\ UNCHANGED notManifest

NextManifest == ParseManifest \/ ParseModules

SpecManifest == InitManifest /\ [][NextManifest]_vars

\* C19: the resource table and the module list read from a manifest are
\* those read from the same logical manifest written in any other known
\* namespace, or in none.
C19_NamespaceIndependent ==
    \A uri \in KnownNamespaces :
        /\ man_pc # "start" => man_resources = parse_manifest(Express(logical, uri))
        /\ man_pc = "modules" => man_modules = parse_modules(Express(logical, uri))

\* A manifest written in a namespace other than the first has been read:
\* two resources with their files, and a titled module with its items.
C19_Witness ==
    /\ man_pc = "modules"
    /\ namespace = NS[2]
    /\ Len(man_resources) = 2
    /\ man_resources[1].files = <<"a.html", "b.png">>
    /\ Len(man_modules) = 1
    /\ man_modules[1].title = "Week 1"
    /\ man_modules[1].items = <<"r2", "r1">>

-----------------------------------------------------------------------------
(***************************************************************************)
(* Quizzes and question banks in the aggregate.                            *)
(***************************************************************************)
\* process_resources hands the resource to process_quiz (lines 512-523)
ReachesProcessQuiz(resource) ==
    /\ ~is_page_resource(resource)
    /\ ~is_assignment_resource(resource)
    /\ is_quiz_resource(resource)

\* process_quiz finds the assessment file, parses it and finds the
\* assessment element (lines 875-891)
AssessmentFound(resource) ==
    /\ assessment_path(resource) # 0
    /\ resource.files[assessment_path(resource)] \in temp_files \ malformed
    /\ resource.assessment.parsed

InQuizzes(resource) ==
    \E n \in 1..Len(quizzes) : quizzes[n].identifier = resource.identifier

InQuestionBanks(resource) ==
    \E n \in 1..Len(question_banks) : question_banks[n].identifier = resource.identifier

\* C21 (as stated): every QTI assessment resource that has been processed is
\* in exactly one of the quizzes list and the question-banks list.
C21_ExactlyOneOfQuizOrBank ==
    \A i \in 1..Len(resources) :
        (i < res_i /\ is_quiz_resource(resources[i]))
            => (InQuizzes(resources[i]) # InQuestionBanks(resources[i]))

\* C21 (amended): no processed resource is in both lists; a resource that
\* reaches process_quiz and whose assessment element is found is in exactly
\* one of them; every other resource is in neither.
C21_AtMostOneAndOneWhenFound ==
    \A i \in 1..Len(resources) :
        i < res_i =>
            /\ ~(InQuizzes(resources[i]) /\ InQuestionBanks(resources[i]))
            /\ (InQuizzes(resources[i]) \/ InQuestionBanks(resources[i]))
                  <=> (ReachesProcessQuiz(resources[i]) /\ AssessmentFound(resources[i]))

\* One processed assessment is in the question banks only, and another
\* processed QTI resource, whose file is not there, is in neither list.
C21_Witness ==
    /\ res_i = 3
    /\ ReachesProcessQuiz(resources[1]) /\ AssessmentFound(resources[1])
    /\ InQuestionBanks(resources[1]) /\ ~InQuizzes(resources[1])
    /\ ReachesProcessQuiz(resources[2]) /\ ~AssessmentFound(resources[2])
    /\ ~InQuestionBanks(resources[2]) /\ ~InQuizzes(resources[2])

\* C22: a processed assessment whose document carries the inline-questions
\* flag is a quiz; otherwise one with a bank keyword in its identifier or
\* title is a bank; otherwise one of an objectbank type is a bank; otherwise
\* it is a quiz.
C22_BankOrQuizOrder ==
    \A i \in 1..Len(resources) :
        (/\ i < res_i
         /\ ReachesProcessQuiz(resources[i])
         /\ AssessmentFound(resources[i]))
        => LET r == resources[i]
               is_bank ==
                   IF r.assessment.inline THEN FALSE
                   ELSE IF BankKeywordIn(Lower(r.identifier))
                           \/ BankKeywordIn(Lower(r.assessment.title)) THEN TRUE
                   ELSE IF TypeContains(r.resource_type, "objectbank") THEN TRUE
                   ELSE FALSE
           IN  /\ InQuestionBanks(r) <=> is_bank
               /\ InQuizzes(r) <=> ~is_bank

-----------------------------------------------------------------------------
\* The identifierrefs of the item elements below an element, at any depth,
\* in document order.
RECURSIVE RefsBelow(_)
RECURSIVE RefsOfItems(_)
RefsOfItems(elems) ==
    IF elems = <<>>
    THEN <<>>
    ELSE (IF Head(elems).attrib.identifierref # ""
          THEN <<Head(elems).attrib.identifierref>> ELSE <<>>)
         \o RefsBelow(Head(elems)) \o RefsOfItems(Tail(elems))

RefsBelow(elem) == RefsOfItems(findall_ns(elem, "item"))

\* The top-level item elements of the organization that carry an identifier.
TopLevelItems(root) ==
    SelectSeq(findall_ns(find_ns(find_ns(root, "organizations")[1], "organization")[1],
                         "item"),
              LAMBDA e : e.attrib.identifier # "")

\* C23: the k-th module parse_modules returns lists the identifierref of
\* every item nested at any depth below the k-th top-level item, in
\* document order.
C23_ItemsCollectedRecursively ==
    man_pc = "modules" =>
        /\ Len(man_modules) = Len(TopLevelItems(manifest_root))
        /\ \A k \in 1..Len(man_modules) :
              man_modules[k].items = RefsBelow(TopLevelItems(manifest_root)[k])

-----------------------------------------------------------------------------
(***************************************************************************)
(* Two writers on one registry document.  Each constructs an AssetRegistry *)
(* (which loads the document), tracks uploads in memory and saves once.    *)
(* Their steps interleave freely; saw records which writers had saved when *)
(* a writer loaded.                                                        *)
(***************************************************************************)
MaxWriterTracks == 2

Writers == {1, 2}

NewWriter == [pc |-> "new", assets |-> <<>>, asset_keys |-> <<>>, path_lookup |-> <<>>,
              tracks |-> 0, saw |-> {},
              saved |-> [assets |-> <<>>, path_lookup |-> <<>>]]

InitWriters ==
    /\ IdleRubrics
    /\ IdleExtract
    /\ IdleResources
    /\ IdleManifest
    /\ IdleImport
    /\ disk \in [FileLocs -> Contents \cup {Absent}]
    /\ \A f \in FileLocs : disk[f] \in BytesAt(f) \cup {Absent}
    /\ assets = <<>>
    /\ asset_keys = <<>>
    /\ path_lookup = <<>>
    /\ document = Missing
    /\ now = 0
    /\ last = NoOp
    /\ writers = [w \in Writers |-> NewWriter]

\* __init__, lines 70-86, with the _load it ends in
WriterLoad(w) ==
    /\ writers[w].pc = "new"
    /\ writers' = [writers EXCEPT ![w] =
            [@ EXCEPT !.pc = "loaded",
                      !.assets = Loaded(document).assets,
                      !.asset_keys = Loaded(document).asset_keys,
                      !.path_lookup = Loaded(document).path_lookup,
                      !.saw = {v \in Writers : writers[v].pc = "saved"}]]
    /\ UNCHANGED regVars
    /\ UNCHANGED notWriters

\* track_upload, lines 148-222, on the writer's own registry
WriterTrack(w, local_path, up) ==
    /\ writers[w].pc = "loaded"
    /\ writers[w].tracks < MaxWriterTracks
    /\ IsFile(AbsoluteLocalPath(local_path))
    /\ LET r == TrackedRegistry(writers[w].assets, writers[w].asset_keys,
                                writers[w].path_lookup, local_path, up, <<>>, now + 1)
       IN  writers' = [writers EXCEPT ![w] =
               [@ EXCEPT !.assets = r.assets, !.asset_keys = r.asset_keys,
                         !.path_lookup = r.path_lookup, !.tracks = @ + 1]]
    /\ now' = now + 1
    /\ UNCHANGED <<disk, assets, asset_keys, path_lookup, document, last>>
    /\ UNCHANGED notWriters

\* save, lines 102-118: the whole document is written from memory
WriterSave(w) ==
    /\ writers[w].pc = "loaded"
    /\ document' = SavedDocument(writers[w].assets, writers[w].path_lookup)
    /\ writers' = [writers EXCEPT ![w] =
            [@ EXCEPT !.pc = "saved",
                      !.saved = [assets |-> writers[w].assets,
                                 path_lookup |-> writers[w].path_lookup]]]
    /\ UNCHANGED <<disk, assets, asset_keys, path_lookup, now, last>>
    /\ UNCHANGED notWriters

NextWriters ==
    \E w \in Writers :
        \/ WriterLoad(w)
        \/ \E p \in TrackPaths, up \in Uploads : WriterTrack(w, p, up)
        \/ WriterSave(w)

SpecWriters == InitWriters /\ [][NextWriters]_vars

\* The document holds every entry, every alias of every entry and every
\* path of the lookup table that a writer saved.
HoldsAllOf(doc, saved) ==
    /\ DOMAIN saved.assets \subseteq DOMAIN doc.assets
    /\ DOMAIN saved.path_lookup \subseteq DOMAIN doc.path_lookup
    /\ \A k \in DOMAIN saved.assets :
          Range(saved.assets[k].local_paths) \subseteq Range(doc.assets[k].local_paths)

\* C24: when a writer loaded after the other writer had saved, the document
\* after its own save still holds every entry and alias the other saved.
C24_SerializedWritersKeepEntries ==
    \A v, w \in Writers :
        (v # w /\ writers[w].pc = "saved" /\ v \in writers[w].saw)
            => HoldsAllOf(document, writers[v].saved)

\* Writer 2 loaded after writer 1 saved an entry, tracked another file and
\* saved.
C24_Witness ==
    /\ writers[1].pc = "saved"
    /\ writers[2].pc = "saved"
    /\ 1 \in writers[2].saw
    /\ writers[1].saved.assets # <<>>
    /\ DOMAIN document.assets # DOMAIN writers[1].saved.assets

\* The two sequences overlapped and the document lacks something a writer
\* saved.
LostUnderOverlap ==
    /\ \A w \in Writers : writers[w].pc = "saved" /\ writers[w].saw = {}
    /\ \E v \in Writers : ~HoldsAllOf(document, writers[v].saved)

-----------------------------------------------------------------------------
(***************************************************************************)
(* References and what they resolve to.                                    *)
(***************************************************************************)
\* The criterion an entry stands for: itself, or the row file its
\* placeholder names (the placeholder itself when there is no such file).
ResolvedEntry(entry, rows) ==
    IF IsCriterion(entry) THEN NormalizeEntry(entry)
    ELSE IF entry.rubric_row \in DOMAIN rows THEN NormalizeEntry(rows[entry.rubric_row])
    ELSE entry

\* The criteria list a rubric document stands for, normalized.
ResolvedCriteria(doc, shared, rows) ==
    LET criteria == IF doc.use_rubric = "" THEN doc.criteria
                    ELSE IF doc.use_rubric \in DOMAIN shared
                    THEN shared[doc.use_rubric].criteria
                    ELSE <<doc.use_rubric>>
    IN  [i \in 1..Len(criteria) |-> ResolvedEntry(criteria[i], rows)]

\* Every reference of the document names a file of the shared stores.
ReferencesExist(doc, shared, rows) ==
    /\ doc.use_rubric # "" => doc.use_rubric \in DOMAIN shared
    /\ \A i \in 1..Len(doc.criteria) :
          ~IsCriterion(doc.criteria[i]) => doc.criteria[i].rubric_row \in DOMAIN rows

\* C25: a run of deduplicate_rubric_rows leaves every rubric document, and
\* every shared rubric that was there, with references that name existing
\* files and that resolve to the normalized criteria list the document stood
\* for before the run.
C25_ReferencesResolveToOriginal ==
    [][DedupStep =>
        /\ \A p \in DOMAIN rubric_docs :
              /\ ReferencesExist(rubric_docs'[p], shared_rubrics', row_files')
              /\ ResolvedCriteria(rubric_docs'[p], shared_rubrics', row_files')
                    = ResolvedCriteria(rubric_docs[p], shared_rubrics, row_files)
        /\ \A x \in DOMAIN shared_rubrics' :
              ReferencesExist(shared_rubrics'[x], shared_rubrics', row_files')
        /\ \A x \in DOMAIN shared_rubrics :
              ResolvedCriteria(shared_rubrics'[x], shared_rubrics', row_files')
                    = ResolvedCriteria(shared_rubrics[x], shared_rubrics, row_files)]_vars

\* The last run wrote files; one document is a use_rubric reference and
\* another carries a placeholder next to an inline criterion.
C25_Witness ==
    /\ clean_runs = 1
    /\ written # {}
    /\ \E p \in DOMAIN rubric_docs : rubric_docs[p].use_rubric # ""
    /\ \E p \in DOMAIN rubric_docs :
          /\ \E i \in 1..Len(rubric_docs[p].criteria) : ~IsCriterion(rubric_docs[p].criteria[i])
          /\ \E i \in 1..Len(rubric_docs[p].criteria) : IsCriterion(rubric_docs[p].criteria[i])

-----------------------------------------------------------------------------
\* C26: right after a track_upload of a file under the assets root,
\* get_canvas_url gives the URL of the call both for the normalized path of
\* the file and for its synthesized "../../assets/..." alias.
C26_AliasResolvesToTrackedUrl ==
    [][ \A f \in FileLocs : \A k \in Range(HashKeyOrder) :
            (/\ last'.op = "track_upload" /\ last'.path = f /\ last'.key = k
             /\ HasContentAlias(f))
            => /\ get_canvas_url(NormalizedPath(f))' = assets'[k].canvas_url
               /\ get_canvas_url(ContentAlias(f))' = assets'[k].canvas_url
      ]_vars

\* C27: prune_missing leaves the entries it keeps as they were, and every
\* path that the index mapped to a kept entry still maps to it.
C27_PruneKeepsSurvivors ==
    [][ last'.op = "prune_missing" =>
            \A k \in DOMAIN assets' :
                /\ k \in DOMAIN assets
                /\ assets'[k] = assets[k]
                /\ \A p \in DOMAIN path_lookup :
                      path_lookup[p] = k =>
                          (p \in DOMAIN path_lookup' /\ path_lookup'[p] = k)
      ]_vars

\* The directories a piece of a relative path descends; "../" steps up.
DirSteps(piece) == CASE piece = "../" -> -1
                     [] piece = "web_resources/assets/" -> 2
                     [] piece \in {"sub/", "g1/", "q1/", "wiki_content/p1"} -> 1
                     [] OTHER -> 0

\* whether a relative path, followed piece by piece, leaves its base directory
RECURSIVE LeavesBase(_, _)
LeavesBase(depth, pieces) ==
    IF pieces = <<>> THEN FALSE
    ELSE \/ depth + DirSteps(Head(pieces)) < 0
         \/ LeavesBase(depth + DirSteps(Head(pieces)), Tail(pieces))

\* C28: every destination recorded in the asset map is relative without a
\* ".." segment, so that joined to the output assets/ directory it stays
\* inside it, and every source recorded lies inside the scratch directory;
\* every file copy_assets writes is inside assets/.
C28_AssetPathsStayInside ==
    /\ \A f \in DOMAIN cart_assets :
          /\ IsRelativeTo(f, temp_dir)
          /\ ~LeavesBase(0, RelativeTo(f, temp_dir))
          /\ \A i \in 1..Len(cart_assets[f]) : cart_assets[f][i] # "../"
          /\ ~LeavesBase(0, cart_assets[f])
    /\ output_assets.done =>
          \A dest \in DOMAIN output_assets.files : ~LeavesBase(0, dest)

-----------------------------------------------------------------------------
(***************************************************************************)
(* import_cartridge, lines 1679-1768: the order of its steps against the   *)
(* three directories it owns under the output directory.  What the         *)
(* extractor and the manifest parser do with the cartridge is an input     *)
(* here: the archive is accepted or rejected (extract_cartridge raises     *)
(* RuntimeError, lines 362-366), the manifest is there and parses, is      *)
(* missing (line 382) or does not parse (line 403).                        *)
(***************************************************************************)

OldFiles == {"old.md"}
NewFiles == {"new.md"}

Directories == {NoDirectory} \cup [exists : {TRUE}, files : SUBSET OldFiles]

ImportInputs == [clean : BOOLEAN, dry_run : BOOLEAN, archive : {"ok", "rejected"},
                 manifest : {"ok", "missing", "unparsable"}]

InitImport ==
    /\ IdleRegistry
    /\ IdleRubrics
    /\ IdleExtract
    /\ IdleResources
    /\ IdleManifest
    /\ IdleWriters
    /\ imp_input \in ImportInputs
    /\ output_tree \in [Subdirs -> Directories]
    /\ tree_before = output_tree
    /\ imp_temp = FALSE
    /\ imp_pc = "clean"

\* lines 1690-1696: shutil.rmtree on each of the three directories that exists
CleanOutput ==
    /\ imp_pc = "clean"
    /\ output_tree' = IF imp_input.clean /\ ~imp_input.dry_run
                       THEN [d \in Subdirs |-> NoDirectory]
                       ELSE output_tree
    /\ imp_pc' = "extract"
    /\ UNCHANGED <<imp_input, tree_before, imp_temp>>
    /\ UNCHANGED notImport

\* line 1699: extract_cartridge returns the scratch directory, or removes
\* it and raises, and import_cartridge lets the exception through
ImportExtract ==
    /\ imp_pc = "extract"
    /\ IF imp_input.archive = "ok"
       THEN imp_temp' = TRUE /\ imp_pc' = "parse"
       ELSE imp_temp' = FALSE /\ imp_pc' = "raised"
    /\ UNCHANGED <<imp_input, output_tree, tree_before>>
    /\ UNCHANGED notImport

\* lines 1701-1704 and 1765-1768: parse_manifest raises on a missing or
\* unparsable manifest; the finally clause removes the scratch directory
ImportParseManifest ==
    /\ imp_pc = "parse"
    /\ IF imp_input.manifest = "ok"
       THEN imp_temp' = imp_temp /\ imp_pc' = "write"
       ELSE imp_temp' = FALSE /\ imp_pc' = "raised"
    /\ UNCHANGED <<imp_input, output_tree, tree_before>>
    /\ UNCHANGED notImport

\* lines 1718-1725: a dry run writes nothing
ImportDryRun ==
    /\ imp_pc = "write"
    /\ imp_input.dry_run
    /\ imp_temp' = FALSE
    /\ imp_pc' = "returned"
    /\ UNCHANGED <<imp_input, output_tree, tree_before>>
    /\ UNCHANGED notImport

\* lines 1727-1749: the writers create the directories of the kinds of item
\* the cartridge holds and write their files
ImportWrite ==
    /\ imp_pc = "write"
    /\ ~imp_input.dry_run
    /\ \E kinds \in SUBSET Subdirs :
          output_tree' = [d \in Subdirs |->
                             IF d \in kinds
                             THEN [exists |-> TRUE,
                                   files  |-> output_tree[d].files \cup NewFiles]
                             ELSE output_tree[d]]
    /\ imp_temp' = FALSE
    /\ imp_pc' = "returned"
    /\ UNCHANGED <<imp_input, tree_before>>
    /\ UNCHANGED notImport

NextImport ==
    CleanOutput \/ ImportExtract \/ ImportParseManifest \/ ImportDryRun \/ ImportWrite

SpecImport == InitImport /\ [][NextImport]_vars

\* C29: when import_cartridge is called with clean=true and dry_run=false and
\* raises because the archive is rejected or the manifest is missing or
\* unparsable, the directories content/, question-banks/ and assets/ are as
\* they were before the call.
C29_FatalFailureLeavesOutput ==
    (imp_pc = "raised" /\ imp_input.clean /\ ~imp_input.dry_run)
        => output_tree = tree_before

\* C30: for an archive that passes the member-count and declared-size
\* checks, the running total of the member loops never exceeds the declared
\* total of the archive, so it never exceeds MAX_TOTAL_SIZE and the abort
\* of lines 308-310 and 355-357 is never reached.
C30_RunningTotalWithinDeclared ==
    (Len(namelist(archive)) <= MAX_FILES /\ total_size(archive) <= MAX_TOTAL_SIZE)
        => /\ extracted_size <= total_size(archive)
           /\ extracted_size <= MAX_TOTAL_SIZE

=============================================================================
